---- MODULE Spec2Model ----
(***************************************************************************)
(* Credential mirror store of helixrun-cliproxy-starter: the Store of      *)
(* internal/cliproxy/repo/auth/store.go (a PostgreSQL table mirrored to    *)
(* JSON files under authDir) and the path helpers of                       *)
(* internal/store/postgres_token_store.go.                                 *)
(*                                                                         *)
(* Strings are sequences of one-character strings, so that the path        *)
(* functions (TrimSpace, Contains, Clean, Join, Rel) are computed the way  *)
(* the Go library computes them on a Unix build (separator "/").           *)
(***************************************************************************)
EXTENDS Integers, Sequences, FiniteSets, TLC

(***************************************************************************)
(* Bounds of the model.                                                    *)
(***************************************************************************)
\* longest string enumerated as an input of the path functions
MaxLen == 4
\* calls started in one behaviour of the store
MaxCalls == 2
\* file-system or database steps that fail in one behaviour
MaxFaults == 1

(***************************************************************************)
(* Strings.                                                                *)
(***************************************************************************)
Separator == "/"

RECURSIVE StringsUpTo(_, _)
StringsUpTo(alphabet, n) ==
    IF n = 0 THEN {<<>>}
    ELSE LET shorter == StringsUpTo(alphabet, n - 1)
         IN  shorter \cup {Append(s, c) : s \in shorter, c \in alphabet}

\* strings.TrimSpace
RECURSIVE TrimLeft(_)
TrimLeft(s) == IF s # <<>> /\ Head(s) = " " THEN TrimLeft(Tail(s)) ELSE s

RECURSIVE TrimRight(_)
TrimRight(s) ==
    IF s # <<>> /\ s[Len(s)] = " " THEN TrimRight(SubSeq(s, 1, Len(s) - 1)) ELSE s

TrimSpace(s) == TrimRight(TrimLeft(s))

\* strings.HasPrefix
HasPrefix(s, prefix) ==
    /\ Len(s) >= Len(prefix)
    /\ SubSeq(s, 1, Len(prefix)) = prefix

\* strings.HasSuffix
HasSuffix(s, suffix) ==
    /\ Len(s) >= Len(suffix)
    /\ SubSeq(s, Len(s) - Len(suffix) + 1, Len(s)) = suffix

\* strings.Contains
Contains(s, sub) ==
    \E i \in 1..(Len(s) - Len(sub) + 1) : SubSeq(s, i, i + Len(sub) - 1) = sub

DotDot == <<".", ".">>
Dot == <<".">>

(***************************************************************************)
(* path/filepath on a Unix build.                                          *)
(***************************************************************************)
\* filepath.IsAbs
IsAbs(path) == path # <<>> /\ path[1] = Separator

\* filepath.FromSlash / filepath.ToSlash: replace "/" by the separator and back
FromSlash(path) == [i \in 1..Len(path) |-> IF path[i] = "/" THEN Separator ELSE path[i]]
ToSlash(path) == [i \in 1..Len(path) |-> IF path[i] = Separator THEN "/" ELSE path[i]]

\* the elements of a path between separators (empty elements included)
RECURSIVE SplitPath(_, _, _)
SplitPath(path, cur, acc) ==
    IF path = <<>> THEN Append(acc, cur)
    ELSE IF Head(path) = Separator THEN SplitPath(Tail(path), <<>>, Append(acc, cur))
    ELSE SplitPath(Tail(path), Append(cur, Head(path)), acc)

Elements(path) == SplitPath(path, <<>>, <<>>)

RECURSIVE JoinElements(_)
JoinElements(elems) ==
    IF elems = <<>> THEN <<>>
    ELSE IF Len(elems) = 1 THEN elems[1]
    ELSE elems[1] \o <<Separator>> \o JoinElements(Tail(elems))

\* the element loop of filepath.Clean: drop empty and "." elements, let ".."
\* remove the element before it, keep a leading ".." only when not rooted
RECURSIVE CleanElements(_, _, _)
CleanElements(elems, out, rooted) ==
    IF elems = <<>> THEN out
    ELSE LET e == Head(elems)
             rest == Tail(elems)
         IN  IF e = <<>> \/ e = Dot THEN CleanElements(rest, out, rooted)
             ELSE IF e = DotDot
                  THEN IF out # <<>> /\ out[Len(out)] # DotDot
                       THEN CleanElements(rest, SubSeq(out, 1, Len(out) - 1), rooted)
                       ELSE IF rooted THEN CleanElements(rest, out, rooted)
                       ELSE CleanElements(rest, Append(out, e), rooted)
             ELSE CleanElements(rest, Append(out, e), rooted)

\* filepath.Clean
Clean(path) ==
    IF path = <<>> THEN Dot
    ELSE LET rooted == IsAbs(path)
             body == JoinElements(CleanElements(Elements(path), <<>>, rooted))
         IN  IF rooted THEN <<Separator>> \o body
             ELSE IF body = <<>> THEN Dot ELSE body

\* filepath.Join of two elements: empty elements are ignored, the rest is cleaned
Join(a, b) ==
    IF a = <<>> /\ b = <<>> THEN <<>>
    ELSE IF a = <<>> THEN Clean(b)
    ELSE IF b = <<>> THEN Clean(a)
    ELSE Clean(a \o <<Separator>> \o b)

\* the non-empty elements of a cleaned path
NamedElements(path) == SelectSeq(Elements(path), LAMBDA e : e # <<>>)

RECURSIVE CommonPrefixLen(_, _)
CommonPrefixLen(a, b) ==
    IF a = <<>> \/ b = <<>> \/ Head(a) # Head(b) THEN 0
    ELSE 1 + CommonPrefixLen(Tail(a), Tail(b))

\* filepath.Rel: [err, val]
Rel(basepath, targpath) ==
    LET base == Clean(basepath)
        targ == Clean(targpath)
        b == IF base = Dot THEN <<>> ELSE NamedElements(base)
        t == IF targ = Dot THEN <<>> ELSE NamedElements(targ)
        k == CommonPrefixLen(b, t)
        ups == [i \in 1..(Len(b) - k) |-> DotDot]
        rest == SubSeq(t, k + 1, Len(t))
    IN  IF targ = base THEN [err |-> FALSE, val |-> Dot]
        ELSE IF IsAbs(base) # IsAbs(targ) THEN [err |-> TRUE, val |-> <<>>]
        ELSE IF k < Len(b) /\ b[k + 1] = DotDot THEN [err |-> TRUE, val |-> <<>>]
        ELSE [err |-> FALSE, val |-> JoinElements(ups \o rest)]

(***************************************************************************)
(* The world of the model: one mirror root, a few file names.              *)
(***************************************************************************)
\* Store.authDir (absolute, cleaned by filepath.Abs in New)
AuthDir == <<"/", "r">>

EmptyString == <<>>
IdA == <<"a">>
IdB == <<"b">>
IdDotA == <<".", "/", "a">>
IdParent == <<".", ".", "/", "x">>
IdSpaceA == <<" ", "a">>
IdOutside == <<"/", "x">>
PathOutside == <<"/", "x">>
PathB == <<"/", "r", "/", "b">>

\* values of auth.ID and auth.FileName passed to Save
SaveIds == {EmptyString, IdA, IdB, IdDotA, IdSpaceA, IdParent}
FileNames == {EmptyString, IdB, IdParent}
\* values of id passed to Delete
DeleteIds == {EmptyString, IdA, IdB, IdDotA, IdParent, IdOutside}
\* paths passed to PersistAuthFiles: a mirror file, the temp file a write of
\* it leaves, a file outside the mirror root
PathBTmp == <<"/", "r", "/", "b", ".", "t", "m", "p">>
PersistPaths == {PathB, PathBTmp, PathOutside}
\* values of auth.Metadata
Metas == {"m1", "m2"}

Procs == {"p1", "p2"}
NoProc == "none"

\* json.Marshal of a metadata map, and the content a failed write can leave
Marshal(meta) == <<"json", meta>>
Partial == <<"partial">>
IsJSON(data) == data # <<>> /\ data[1] = "json"
Unmarshal(data) == data[2]

\* the temp file is the destination itself
NoSuffix == <<>>

\* writeMetadata: tmp := path + ".tmp"
TmpSuffix == <<".", "t", "m", "p">>

(***************************************************************************)
(* State.                                                                  *)
(***************************************************************************)
VARIABLES
    files,      \* the file system: path -> content, for the files that exist
    rows,       \* table provider_credentials: id -> row
    mu,         \* Store.mu: the process holding it, or NoProc
    pc,         \* position of each process inside its call
    call,       \* arguments and locals of each process's call
    pre,        \* files and rows when the call started to act (at its lock)
    ret,        \* the value the call returns
    calls,      \* calls started
    faults,     \* failed file-system and database steps
    pathIn,     \* input of the path functions
    pathOut     \* their results

VARIABLES
    table,      \* provider_credentials with all its columns: id -> row
    disk,       \* the files under authDir with their modification times
    now,        \* time.Now()
    last,       \* the last call on the records and what it returned
    pgRows,     \* the auth table of PostgresTokenStore: id -> content
    pgFiles,    \* the files of the PostgresTokenStore host
    start,      \* cliproxy.Start: its position and what it has done
    sync,       \* SyncFromDatabase: its position and the rows still to write
    dirty,      \* paths the file watcher has not yet passed to PersistAuthFiles
    writes      \* writes of the external auth subsystem

VARIABLES
    pgMu,       \* PostgresTokenStore.mu: the process holding it, or NoProc
    pgCall,     \* each process's call on the PostgresTokenStore and its position
    read,       \* the last Store.Get or Store.List and what it returned
    registry,   \* the registry of the runtime manager: id -> entry
    req,        \* the HTTP request served last and its response
    key         \* the management key: environment, config file, the key main chose

vars == <<files, rows, mu, pc, call, pre, ret, calls, faults, pathIn, pathOut,
          table, disk, now, last, pgRows, pgFiles, start, sync, dirty, writes,
          pgMu, pgCall, read, registry, req, key>>
storeVars == <<files, rows, mu, pc, call, pre, ret, calls, faults>>
pathVars == <<pathIn, pathOut>>
recVars == <<table, disk, now, last>>
pgVars == <<pgRows, pgFiles, start, sync>>
watchVars == <<dirty, writes>>
lockVars == <<pgMu, pgCall>>
apiVars == <<read, registry, req, key>>

\* the parts of the state a specification does not use
NoPathOut == [fn |-> "none"]
NoLast == [op |-> "none"]
StartOff == [pc |-> "off"]
SyncIdle == [pc |-> "idle"]
RecIdle == table = <<>> /\ disk = <<>> /\ now = 0 /\ last = NoLast
PgIdle == pgRows = <<>> /\ pgFiles = <<>> /\ start = StartOff /\ sync = SyncIdle
WatchIdle == dirty = {} /\ writes = 0
PathIdle == pathIn = <<>> /\ pathOut = NoPathOut
PgNoCall == [op |-> "none", pc |-> "idle"]
NoRead == [op |-> "none"]
NoReq == [n |-> 0]
NoKey == [pc |-> "off"]
LockIdle == pgMu = NoProc /\ pgCall = [p \in Procs |-> PgNoCall]
ApiIdle == read = NoRead /\ registry = <<>> /\ req = NoReq /\ key = NoKey

\* concurrent: the call was made while another call held the lock (history only)
NoCall == [op |-> "none", id |-> <<>>, fileName |-> <<>>, meta |-> "", disabled |-> FALSE,
           paths |-> <<>>, i |-> 0, path |-> <<>>, rel |-> <<>>, concurrent |-> FALSE]
NoPre == [files |-> <<>>, rows |-> <<>>]
NoRet == [err |-> "", path |-> <<>>]

Exists(fs, path) == path \in DOMAIN fs
\* the file system without the file at path
RemoveFile(fs, path) == [q \in (DOMAIN fs) \ {path} |-> fs[q]]
\* the file system with data written at path
WriteFile(fs, path, data) == [q \in (DOMAIN fs) \cup {path} |-> IF q = path THEN data ELSE fs[q]]
\* os.Rename(from, to)
Rename(fs, from, to) == RemoveFile(WriteFile(fs, to, fs[from]), from)

HasRow(tbl, id) == id \in DOMAIN tbl
\* DELETE FROM provider_credentials WHERE id = $1
DeleteRow(tbl, id) == [k \in (DOMAIN tbl) \ {id} |-> tbl[k]]

(***************************************************************************)
(* Helpers of Store.                                                       *)
(***************************************************************************)
\* resolvePath without the ".." check of line 372
resolvePathUnchecked(auth) ==
    LET fromFileName == TrimSpace(auth.fileName)
        fileName == IF fromFileName = <<>> THEN TrimSpace(auth.id) ELSE fromFileName
    IN  IF fileName = <<>>
        THEN [err |-> "missing file name", abs |-> <<>>, rel |-> <<>>]
        ELSE [err |-> "", abs |-> Join(AuthDir, FromSlash(fileName)), rel |-> ToSlash(fileName)]

\* Store.resolvePath: [err, abs, rel]
resolvePath(auth) ==
    LET fromFileName == TrimSpace(auth.fileName)
        fileName == IF fromFileName = <<>> THEN TrimSpace(auth.id) ELSE fromFileName
    IN  IF fileName = <<>>
        THEN [err |-> "missing file name", abs |-> <<>>, rel |-> <<>>]
        ELSE IF Contains(fileName, DotDot)
        THEN [err |-> "invalid relative path", abs |-> <<>>, rel |-> <<>>]
        ELSE [err |-> "", abs |-> Join(AuthDir, FromSlash(fileName)), rel |-> ToSlash(fileName)]

\* relativeName with the arguments of filepath.Rel exchanged
relativeNameSwapped(path) ==
    LET abs == IF IsAbs(path) THEN path ELSE Join(AuthDir, path)
        clean == Clean(abs)
        rel == Rel(clean, AuthDir)
    IN  IF rel.err THEN [err |-> "compute relative path", val |-> <<>>]
        ELSE IF HasPrefix(rel.val, DotDot) THEN [err |-> "outside auth dir", val |-> <<>>]
        ELSE [err |-> "", val |-> ToSlash(rel.val)]

\* Store.relativeName: [err, val]
relativeName(path) ==
    LET abs == IF IsAbs(path) THEN path ELSE Join(AuthDir, path)
        clean == Clean(abs)
        rel == Rel(AuthDir, clean)
    IN  IF rel.err THEN [err |-> "compute relative path", val |-> <<>>]
        ELSE IF HasPrefix(rel.val, DotDot) THEN [err |-> "outside auth dir", val |-> <<>>]
        ELSE [err |-> "", val |-> ToSlash(rel.val)]

\* Store.ensureAbsolute
ensureAbsolute(path) ==
    IF IsAbs(path) THEN Clean(path) ELSE Join(AuthDir, FromSlash(path))

\* the path Store.applyMirrorPath puts into attributes.path for a row
applyMirrorPath(id, relName) ==
    LET name == IF relName = <<>> THEN id ELSE relName
    IN  Join(AuthDir, FromSlash(ToSlash(name)))

\* Store.persistRecord: the table after the upsert keyed by auth.ID
persistRecord(tbl, auth) ==
    LET rel == IF auth.fileName = <<>> THEN auth.id ELSE auth.fileName
        row == [file_name |-> rel, metadata |-> auth.meta]
    IN  [k \in (DOMAIN tbl) \cup {auth.id} |-> IF k = auth.id THEN row ELSE tbl[k]]

\* a DELETE that removes nothing
deleteNothing(tbl, rel) == tbl

\* Store.deleteRecord
deleteRecord(tbl, rel) == DeleteRow(tbl, rel)

\* Store.Get on the table tbl: [err, found, path, metadata]
Get(tbl, rawId) ==
    LET id == TrimSpace(rawId)
    IN  IF id = <<>>
        THEN [err |-> "id required", found |-> FALSE, path |-> <<>>, metadata |-> ""]
        ELSE IF ~HasRow(tbl, id)
        THEN [err |-> "", found |-> FALSE, path |-> <<>>, metadata |-> ""]
        ELSE [err |-> "", found |-> TRUE,
              path |-> applyMirrorPath(id, tbl[id].file_name),
              metadata |-> tbl[id].metadata]

\* a lock that never blocks
CanLockAlways(m) == m \in Procs \cup {NoProc}

\* sync.Mutex.Lock can proceed
CanLock(m) == m = NoProc

(***************************************************************************)
(* Steps shared by the operations.                                         *)
(***************************************************************************)
Snapshot == [files |-> files, rows |-> rows]

\* the call has computed its return value (the deferred Unlock is pending)
Return(p, e, path) ==
    /\ pc' = [pc EXCEPT ![p] = "done"]
    /\ ret' = [ret EXCEPT ![p] = [err |-> e, path |-> path]]

Goto(p, label) ==
    /\ pc' = [pc EXCEPT ![p] = label]
    /\ ret' = ret

Fault ==
    /\ faults < MaxFaults
    /\ faults' = faults + 1

NoFault == faults' = faults

\* a return that leaves the mutex locked
FinishKeepsLock(p) ==
    /\ pc[p] = "done"
    /\ pc' = [pc EXCEPT ![p] = "idle"]
    /\ call' = [call EXCEPT ![p] = NoCall]
    /\ pre' = [pre EXCEPT ![p] = NoPre]
    /\ ret' = [ret EXCEPT ![p] = NoRet]
    /\ mu' = mu
    /\ UNCHANGED <<files, rows, calls, faults, pathVars, recVars, pgVars, watchVars, lockVars, apiVars>>

\* the call returns: the deferred s.mu.Unlock() runs when the lock was taken
Finish(p) ==
    /\ pc[p] = "done"
    /\ pc' = [pc EXCEPT ![p] = "idle"]
    /\ call' = [call EXCEPT ![p] = NoCall]
    /\ pre' = [pre EXCEPT ![p] = NoPre]
    /\ ret' = [ret EXCEPT ![p] = NoRet]
    /\ mu' = IF mu = p THEN NoProc ELSE mu
    /\ UNCHANGED <<files, rows, calls, faults, pathVars, recVars, pgVars, watchVars, lockVars, apiVars>>

\* the process dies and restarts on the same directory and table
Crash ==
    /\ \E p \in Procs : pc[p] \notin {"idle", "done"}
    /\ pc' = [p \in Procs |-> "idle"]
    /\ call' = [p \in Procs |-> NoCall]
    /\ pre' = [p \in Procs |-> NoPre]
    /\ ret' = [p \in Procs |-> NoRet]
    /\ mu' = NoProc
    /\ UNCHANGED <<files, rows, calls, faults, pathVars, recVars, pgVars, watchVars, lockVars, apiVars>>

(***************************************************************************)
(* Store.Save                                                              *)
(***************************************************************************)
\* lines 237-247: nil and empty-id checks, before the lock
SaveCall(p, auth) ==
    /\ pc[p] = "idle"
    /\ calls < MaxCalls
    /\ calls' = calls + 1
    /\ call' = [call EXCEPT ![p] = [NoCall EXCEPT !.op = "Save", !.id = auth.id,
                    !.fileName = auth.fileName, !.meta = auth.meta,
                    !.disabled = auth.disabled,
                    !.concurrent = (mu # NoProc)]]
    /\ IF TrimSpace(auth.id) = <<>>
       THEN /\ Return(p, "id required", <<>>)
            /\ pre' = [pre EXCEPT ![p] = Snapshot]
       ELSE /\ Goto(p, "save_lock")
            /\ pre' = pre
    /\ UNCHANGED <<files, rows, mu, faults, pathVars, recVars, pgVars, watchVars, lockVars, apiVars>>

\* lines 248-260: lock, resolvePath, branch on Disabled
SaveLock(p) ==
    /\ pc[p] = "save_lock"
    /\ CanLock(mu)
    /\ mu' = p
    /\ pre' = [pre EXCEPT ![p] = Snapshot]
    /\ LET r == resolvePath(call[p])
       IN  IF r.err # ""
           THEN /\ Return(p, r.err, <<>>)
                /\ call' = call
           ELSE /\ call' = [call EXCEPT ![p].path = r.abs, ![p].rel = r.rel]
                /\ Goto(p, IF call[p].disabled THEN "save_remove" ELSE "save_mkdir")
    /\ UNCHANGED <<files, rows, calls, faults, pathVars, recVars, pgVars, watchVars, lockVars, apiVars>>

\* line 256: os.Remove(path), a missing file tolerated
SaveRemove(p) ==
    /\ pc[p] = "save_remove"
    /\ \/ /\ Fault
          /\ Return(p, "delete file", <<>>)
          /\ files' = files
       \/ /\ NoFault
          /\ files' = RemoveFile(files, call[p].path)
          /\ Goto(p, "save_delete_record")
    /\ UNCHANGED <<rows, mu, call, pre, calls, pathVars, recVars, pgVars, watchVars, lockVars, apiVars>>

\* line 259: return "", s.deleteRecord(ctx, rel)
SaveDeleteRecord(p) ==
    /\ pc[p] = "save_delete_record"
    /\ \/ /\ Fault
          /\ Return(p, "delete row", <<>>)
          /\ rows' = rows
       \/ /\ NoFault
          /\ rows' = deleteRecord(rows, call[p].rel)
          /\ Return(p, "", <<>>)
    /\ UNCHANGED <<files, mu, call, pre, calls, pathVars, recVars, pgVars, watchVars, lockVars, apiVars>>

\* writeMetadata, line 406: os.MkdirAll(filepath.Dir(path))
SaveMkdir(p) ==
    /\ pc[p] = "save_mkdir"
    /\ \/ /\ Fault
          /\ Return(p, "create auth subdir", <<>>)
       \/ /\ NoFault
          /\ Goto(p, "save_write_tmp")
    /\ UNCHANGED <<files, rows, mu, call, pre, calls, pathVars, recVars, pgVars, watchVars, lockVars, apiVars>>

\* writeMetadata, lines 409-412: os.WriteFile(path + ".tmp", raw); a failed
\* write leaves no temp file or a truncated one, and a write in progress
\* shows a truncated file before the complete one
SaveWriteTmp(p) ==
    /\ pc[p] = "save_write_tmp"
    /\ LET tmp == call[p].path \o TmpSuffix
       IN  \/ /\ Fault
              /\ Return(p, "write temp file", <<>>)
              /\ files' \in {files, WriteFile(files, tmp, Partial)}
           \/ /\ NoFault
              /\ IF Exists(files, tmp) THEN files[tmp] # Partial ELSE TRUE
              /\ files' = WriteFile(files, tmp, Partial)
              /\ Goto(p, "save_write_tmp")
           \/ /\ NoFault
              /\ files' = WriteFile(files, tmp, Marshal(call[p].meta))
              /\ Goto(p, "save_rename")
    /\ UNCHANGED <<rows, mu, call, pre, calls, pathVars, recVars, pgVars, watchVars, lockVars, apiVars>>

\* writeMetadata, lines 413-415: os.Rename(tmp, path)
SaveRename(p) ==
    /\ pc[p] = "save_rename"
    /\ LET tmp == call[p].path \o TmpSuffix
       IN  \/ /\ Fault
              /\ Return(p, "rename temp file", <<>>)
              /\ files' = files
           \/ /\ NoFault
              /\ IF Exists(files, tmp)
                 THEN /\ files' = Rename(files, tmp, call[p].path)
                      /\ Goto(p, "save_persist")
                 ELSE /\ files' = files
                      /\ Return(p, "rename temp file", <<>>)
    /\ UNCHANGED <<rows, mu, call, pre, calls, pathVars, recVars, pgVars, watchVars, lockVars, apiVars>>

\* lines 269-289: FileName = rel, attributes.path = path, persistRecord
SavePersist(p) ==
    /\ pc[p] = "save_persist"
    /\ \/ /\ Fault
          /\ Return(p, "upsert row", <<>>)
          /\ rows' = rows
       \/ /\ NoFault
          /\ rows' = persistRecord(rows, [id |-> call[p].id, fileName |-> call[p].rel,
                                          meta |-> call[p].meta])
          /\ Return(p, "", call[p].path)
    /\ UNCHANGED <<files, mu, call, pre, calls, pathVars, recVars, pgVars, watchVars, lockVars, apiVars>>

(***************************************************************************)
(* Store.Delete                                                            *)
(***************************************************************************)
\* lines 293-300: empty-id check, before the lock
DeleteCall(p, rawId) ==
    /\ pc[p] = "idle"
    /\ calls < MaxCalls
    /\ calls' = calls + 1
    /\ call' = [call EXCEPT ![p] = [NoCall EXCEPT !.op = "Delete", !.id = TrimSpace(rawId),
                    !.concurrent = (mu # NoProc)]]
    /\ IF TrimSpace(rawId) = <<>>
       THEN /\ Return(p, "id required", <<>>)
            /\ pre' = [pre EXCEPT ![p] = Snapshot]
       ELSE /\ Goto(p, "delete_lock")
            /\ pre' = pre
    /\ UNCHANGED <<files, rows, mu, faults, pathVars, recVars, pgVars, watchVars, lockVars, apiVars>>

\* lines 302-305: lock, path := s.ensureAbsolute(id)
DeleteLock(p) ==
    /\ pc[p] = "delete_lock"
    /\ CanLock(mu)
    /\ mu' = p
    /\ pre' = [pre EXCEPT ![p] = Snapshot]
    /\ call' = [call EXCEPT ![p].path = ensureAbsolute(call[p].id)]
    /\ Goto(p, "delete_remove")
    /\ UNCHANGED <<files, rows, calls, faults, pathVars, recVars, pgVars, watchVars, lockVars, apiVars>>

\* lines 306-312: os.Remove(path), a missing file tolerated, then relativeName
DeleteRemove(p) ==
    /\ pc[p] = "delete_remove"
    /\ \/ /\ Fault
          /\ Return(p, "remove file", <<>>)
          /\ files' = files
          /\ call' = call
       \/ /\ NoFault
          /\ files' = RemoveFile(files, call[p].path)
          /\ LET rel == relativeName(call[p].path)
             IN  IF rel.err # ""
                 THEN /\ Return(p, rel.err, <<>>)
                      /\ call' = call
                 ELSE /\ call' = [call EXCEPT ![p].rel = rel.val]
                      /\ Goto(p, "delete_record")
    /\ UNCHANGED <<rows, mu, pre, calls, pathVars, recVars, pgVars, watchVars, lockVars, apiVars>>

\* line 313: return s.deleteRecord(ctx, rel)
DeleteRecord(p) ==
    /\ pc[p] = "delete_record"
    /\ \/ /\ Fault
          /\ Return(p, "delete row", <<>>)
          /\ rows' = rows
       \/ /\ NoFault
          /\ rows' = deleteRecord(rows, call[p].rel)
          /\ Return(p, "", <<>>)
    /\ UNCHANGED <<files, mu, call, pre, calls, pathVars, recVars, pgVars, watchVars, lockVars, apiVars>>

(***************************************************************************)
(* Store.PersistAuthFiles                                                  *)
(***************************************************************************)
\* paths passed in one call
MaxBatch == 2
PersistBatches == UNION {[1..n -> PersistPaths] : n \in 0..MaxBatch}

\* lines 108-111: nothing to do for an empty list, before the lock
PersistCall(p, paths) ==
    /\ pc[p] = "idle"
    /\ calls < MaxCalls
    /\ calls' = calls + 1
    /\ call' = [call EXCEPT ![p] = [NoCall EXCEPT !.op = "PersistAuthFiles", !.paths = paths,
                    !.concurrent = (mu # NoProc)]]
    /\ IF Len(paths) = 0
       THEN /\ Return(p, "", <<>>)
            /\ pre' = [pre EXCEPT ![p] = Snapshot]
       ELSE /\ Goto(p, "persist_lock")
            /\ pre' = pre
    /\ UNCHANGED <<files, rows, mu, faults, pathVars, recVars, pgVars, watchVars, lockVars, apiVars>>

\* lines 112-113
PersistLock(p) ==
    /\ pc[p] = "persist_lock"
    /\ CanLock(mu)
    /\ mu' = p
    /\ pre' = [pre EXCEPT ![p] = Snapshot]
    /\ call' = [call EXCEPT ![p].i = 1]
    /\ Goto(p, "persist_read")
    /\ UNCHANGED <<files, rows, calls, faults, pathVars, recVars, pgVars, watchVars, lockVars, apiVars>>

\* the loop goes to its next path, or the call returns nil after the last one
Continue(p, c) ==
    IF c.i < Len(c.paths)
    THEN /\ call' = [call EXCEPT ![p] = [c EXCEPT !.i = c.i + 1]]
         /\ Goto(p, "persist_read")
    ELSE /\ call' = [call EXCEPT ![p] = c]
         /\ Return(p, "", <<>>)

\* lines 115-150: one path of the loop up to the database statement
PersistRead(p) ==
    /\ pc[p] = "persist_read"
    /\ LET c == call[p]
           path == TrimSpace(c.paths[c.i])
           full == ensureAbsolute(path)
           rel == relativeName(full)
       IN  \/ /\ Fault
              /\ path # <<>>
              /\ Return(p, "read", <<>>)
              /\ call' = call
           \/ /\ NoFault
              /\ IF path = <<>> THEN Continue(p, c)
                 ELSE IF ~Exists(files, full)
                 THEN IF rel.err = ""
                      THEN /\ call' = [call EXCEPT ![p].rel = rel.val]
                           /\ Goto(p, "persist_delete")
                      ELSE Continue(p, c)
                 ELSE IF files[full] = <<>> THEN Continue(p, c)
                 ELSE IF ~IsJSON(files[full])
                 THEN /\ Return(p, "invalid json", <<>>)
                      /\ call' = call
                 ELSE IF rel.err # ""
                 THEN /\ Return(p, rel.err, <<>>)
                      /\ call' = call
                 ELSE /\ call' = [call EXCEPT ![p].rel = rel.val, ![p].path = full,
                                              ![p].meta = Unmarshal(files[full])]
                      /\ Goto(p, "persist_upsert")
    /\ UNCHANGED <<files, rows, mu, pre, calls, pathVars, recVars, pgVars, watchVars, lockVars, apiVars>>

\* lines 151-164: auth.ID = auth.FileName = relName, persistRecord
PersistUpsert(p) ==
    /\ pc[p] = "persist_upsert"
    /\ \/ /\ Fault
          /\ Return(p, "upsert row", <<>>)
          /\ rows' = rows
          /\ call' = call
       \/ /\ NoFault
          /\ rows' = persistRecord(rows, [id |-> call[p].rel, fileName |-> call[p].rel,
                                          meta |-> call[p].meta])
          /\ Continue(p, call[p])
    /\ UNCHANGED <<files, mu, pre, calls, pathVars, recVars, pgVars, watchVars, lockVars, apiVars>>

\* lines 124-129: the file is gone, deleteRecord(rel)
PersistDelete(p) ==
    /\ pc[p] = "persist_delete"
    /\ \/ /\ Fault
          /\ Return(p, "delete row", <<>>)
          /\ rows' = rows
          /\ call' = call
       \/ /\ NoFault
          /\ rows' = deleteRecord(rows, call[p].rel)
          /\ Continue(p, call[p])
    /\ UNCHANGED <<files, mu, pre, calls, pathVars, recVars, pgVars, watchVars, lockVars, apiVars>>

(***************************************************************************)
(* The store: processes calling Save, Delete and PersistAuthFiles.         *)
(***************************************************************************)
SaveAuths == [id : SaveIds, fileName : FileNames, meta : Metas, disabled : BOOLEAN]

\* New: an empty table; a file of another owner exists outside the mirror root
Init ==
    /\ files = (PathOutside :> Marshal("m1"))
    /\ rows = <<>>
    /\ mu = NoProc
    /\ pc = [p \in Procs |-> "idle"]
    /\ call = [p \in Procs |-> NoCall]
    /\ pre = [p \in Procs |-> NoPre]
    /\ ret = [p \in Procs |-> NoRet]
    /\ calls = 0
    /\ faults = 0
    /\ PathIdle
    /\ RecIdle
    /\ PgIdle
    /\ WatchIdle
    /\ LockIdle
    /\ ApiIdle

Next ==
    \/ \E p \in Procs, auth \in SaveAuths : SaveCall(p, auth)
    \/ \E p \in Procs : SaveLock(p)
    \/ \E p \in Procs : SaveRemove(p)
    \/ \E p \in Procs : SaveDeleteRecord(p)
    \/ \E p \in Procs : SaveMkdir(p)
    \/ \E p \in Procs : SaveWriteTmp(p)
    \/ \E p \in Procs : SaveRename(p)
    \/ \E p \in Procs : SavePersist(p)
    \/ \E p \in Procs, id \in DeleteIds : DeleteCall(p, id)
    \/ \E p \in Procs : DeleteLock(p)
    \/ \E p \in Procs : DeleteRemove(p)
    \/ \E p \in Procs : DeleteRecord(p)
    \/ \E p \in Procs, paths \in PersistBatches : PersistCall(p, paths)
    \/ \E p \in Procs : PersistLock(p)
    \/ \E p \in Procs : PersistRead(p)
    \/ \E p \in Procs : PersistUpsert(p)
    \/ \E p \in Procs : PersistDelete(p)
    \/ \E p \in Procs : Finish(p)
    \/ Crash

Spec == Init /\ [][Next]_vars

(***************************************************************************)
(* Concurrent Save calls alone: records that are stored (Disabled false),  *)
(* no failing step.                                                        *)
(***************************************************************************)
StoredAuths == {auth \in SaveAuths : ~auth.disabled}

NextSaves ==
    \/ \E p \in Procs, auth \in StoredAuths : SaveCall(p, auth)
    \/ \E p \in Procs : SaveLock(p)
    \/ \E p \in Procs : SaveMkdir(p) /\ NoFault
    \/ \E p \in Procs : SaveWriteTmp(p) /\ NoFault
    \/ \E p \in Procs : SaveRename(p) /\ NoFault
    \/ \E p \in Procs : SavePersist(p) /\ NoFault
    \/ \E p \in Procs : Finish(p)

SpecSaves == Init /\ [][NextSaves]_vars

(***************************************************************************)
(* Path helpers of PostgresTokenStore.                                     *)
(***************************************************************************)
\* PostgresTokenStore.authDir: <spool>/auths
PgAuthDir == <<"/", "s", "/", "t">>

\* PostgresTokenStore.relativeAuthID: [err, val]
relativeAuthID(path) ==
    LET abs == IF IsAbs(path) THEN path ELSE Join(PgAuthDir, path)
        clean == Clean(abs)
        rel == Rel(PgAuthDir, clean)
    IN  IF rel.err THEN [err |-> "compute relative path", val |-> <<>>]
        ELSE IF HasPrefix(rel.val, DotDot) THEN [err |-> "outside managed directory", val |-> <<>>]
        ELSE [err |-> "", val |-> ToSlash(rel.val)]

\* every identifier is rejected
absoluteAuthPathNone(id) == [err |-> "invalid auth identifier", val |-> <<>>]

\* PostgresTokenStore.absoluteAuthPath: [err, val]
absoluteAuthPath(id) ==
    LET clean == Clean(FromSlash(id))
        path == Join(PgAuthDir, clean)
        rel == Rel(PgAuthDir, path)
    IN  IF HasPrefix(clean, DotDot) THEN [err |-> "invalid auth identifier", val |-> <<>>]
        ELSE IF rel.err THEN [err |-> "rel", val |-> <<>>]
        ELSE IF HasPrefix(rel.val, DotDot) THEN [err |-> "escapes auth directory", val |-> <<>>]
        ELSE [err |-> "", val |-> path]

(***************************************************************************)
(* The path resolvers as pure functions of one input string.               *)
(***************************************************************************)
PathAlphabet == {"a", ".", "/", " "}
PathInputs == StringsUpTo(PathAlphabet, MaxLen)

InitPath ==
    /\ files = (PathOutside :> Marshal("m1"))
    /\ rows = <<>>
    /\ mu = NoProc
    /\ pc = [p \in Procs |-> "idle"]
    /\ call = [p \in Procs |-> NoCall]
    /\ pre = [p \in Procs |-> NoPre]
    /\ ret = [p \in Procs |-> NoRet]
    /\ calls = 0
    /\ faults = 0
    /\ pathIn \in PathInputs
    /\ pathOut = NoPathOut
    /\ RecIdle
    /\ PgIdle
    /\ WatchIdle
    /\ LockIdle
    /\ ApiIdle

\* Store.resolvePath on a record with ID = pathIn and no FileName, then
\* Store.relativeName on the resolved path
ResolveStep ==
    /\ pathOut = NoPathOut
    /\ LET r == resolvePath([id |-> pathIn, fileName |-> <<>>])
           back == IF r.err = "" THEN relativeName(r.abs) ELSE [err |-> r.err, val |-> <<>>]
       IN  pathOut' = [fn |-> "resolvePath", err |-> r.err, abs |-> r.abs, key |-> pathIn,
                       backErr |-> back.err, back |-> back.val, root |-> AuthDir]
    /\ UNCHANGED <<storeVars, pathIn, recVars, pgVars, watchVars, lockVars, apiVars>>

\* PostgresTokenStore.absoluteAuthPath on the id pathIn, then relativeAuthID
\* on the resolved path (the id Save uses as the database key)
AbsoluteStep ==
    /\ pathOut = NoPathOut
    /\ LET r == absoluteAuthPath(pathIn)
           back == IF r.err = "" THEN relativeAuthID(r.val) ELSE [err |-> r.err, val |-> <<>>]
       IN  pathOut' = [fn |-> "absoluteAuthPath", err |-> r.err, abs |-> r.val, key |-> back.val,
                       backErr |-> back.err, back |-> back.val, root |-> PgAuthDir]
    /\ UNCHANGED <<storeVars, pathIn, recVars, pgVars, watchVars, lockVars, apiVars>>

NextPath == ResolveStep \/ AbsoluteStep

SpecPath == InitPath /\ [][NextPath]_vars

(***************************************************************************)
(* Properties.                                                             *)
(***************************************************************************)
\* the file a row resolves to (attributes.path of the record Get returns)
MirrorPathOf(tbl, k) == applyMirrorPath(k, tbl[k].file_name)

\* path is a file below the directory root
UnderRoot(path, root) == HasPrefix(path, root \o <<Separator>>) /\ Len(path) > Len(root) + 1

\* the files below the mirror root
MirrorFiles == {f \in DOMAIN files : UnderRoot(f, AuthDir)}

\* s has a parent-directory segment
HasParentSegment(s) == \E i \in 1..Len(Elements(s)) : Elements(s)[i] = DotDot

\* the file name Save resolves: FileName, or ID when FileName is empty
SaveFileName(c) == IF TrimSpace(c.fileName) # <<>> THEN TrimSpace(c.fileName) ELSE TrimSpace(c.id)

\* the content of the file at path, or "absent"
FileAt(fs, path) == IF Exists(fs, path) THEN fs[path] ELSE <<"absent">>
RowAt(tbl, k) == IF HasRow(tbl, k) THEN tbl[k] ELSE [file_name |-> <<>>, metadata |-> "absent"]

InCritical(p) ==
    pc[p] \in {"save_remove", "save_delete_record", "save_mkdir", "save_write_tmp",
               "save_rename", "save_persist", "delete_remove", "delete_record",
               "persist_read", "persist_upsert", "persist_delete"}

AtLock(p) == pc[p] \in {"save_lock", "delete_lock", "persist_lock"}

\* C1 (as claimed): a Save with Disabled = true of a stored record (the same
\* ID and the same file name as stored) returns with Get(ID) not found and
\* the record's mirror file gone.
C1_DisabledSaveRemovesRecord ==
    \A p \in Procs :
        ( /\ pc[p] = "done"
          /\ call[p].op = "Save"
          /\ call[p].disabled
          /\ ret[p].err = ""
          /\ HasRow(pre[p].rows, call[p].id)
          /\ pre[p].rows[call[p].id].file_name = call[p].rel )
        => /\ ~Get(rows, call[p].id).found
           /\ ~Exists(files, MirrorPathOf(pre[p].rows, call[p].id))

\* C2 (as claimed): when Delete(id) returns nil for the id of a stored record,
\* neither the row nor the file of that record remains.
C2_DeleteRemovesFileAndRow ==
    \A p \in Procs :
        ( /\ pc[p] = "done"
          /\ call[p].op = "Delete"
          /\ ret[p].err = ""
          /\ HasRow(pre[p].rows, call[p].id) )
        => /\ ~HasRow(rows, call[p].id)
           /\ ~Exists(files, MirrorPathOf(pre[p].rows, call[p].id))

\* C3 (as claimed): no two distinct rows resolve to the same file.
C3_RowsResolveToDistinctFiles ==
    \A k1, k2 \in DOMAIN rows :
        k1 # k2 => MirrorPathOf(rows, k1) # MirrorPathOf(rows, k2)

\* C4: no step of a Save whose file name has a parent-directory segment
\* changes a file (a temp file included) or a row, and the call returns an error.
C4_ParentSegmentSaveWritesNothing ==
    [][\A p \in Procs :
        ( /\ pc'[p] # pc[p]
          /\ call'[p].op = "Save"
          /\ HasParentSegment(SaveFileName(call'[p])) )
        => /\ files' = files
           /\ rows' = rows
           /\ pc'[p] \in {"save_lock", "done"}
           /\ (pc'[p] = "done" => ret'[p].err # "")]_vars

C4_Witness ==
    \E p \in Procs :
        /\ pc[p] = "done"
        /\ call[p].op = "Save"
        /\ ~call[p].disabled
        /\ call[p].fileName = IdParent
        /\ call[p].id = IdA
        /\ ret[p].err = "invalid relative path"

\* C5 (as claimed): a Delete of an id that resolves outside the mirror root
\* returns an error and has removed no file.
C5_DeleteOutsideRemovesNothing ==
    \A p \in Procs :
        ( /\ pc[p] = "done"
          /\ call[p].op = "Delete"
          /\ call[p].id # <<>>
          /\ ~UnderRoot(ensureAbsolute(call[p].id), AuthDir) )
        => /\ ret[p].err # ""
           /\ files = pre[p].files

\* a relative id in cleaned form, without surrounding white space and without ".."
CanonicalId(id) ==
    /\ id # <<>>
    /\ ~IsAbs(id)
    /\ Clean(id) = id
    /\ id # Dot
    /\ TrimSpace(id) = id
    /\ ~Contains(id, DotDot)

RoundTrips ==
    /\ pathOut.err = ""
    /\ UnderRoot(pathOut.abs, pathOut.root)
    /\ pathOut.backErr = ""
    /\ pathOut.back = pathIn
    /\ pathOut.key = pathIn

C7_ConcurrentSavesConsistent ==
    \A p \in Procs :
        ( /\ pc[p] = "done"
          /\ call[p].op = "Save"
          /\ call[p].concurrent
          /\ ret[p].err = "" )
        => /\ \A k \in DOMAIN rows :
                /\ Exists(files, MirrorPathOf(rows, k))
                /\ files[MirrorPathOf(rows, k)] = Marshal(rows[k].metadata)
           /\ Cardinality(MirrorFiles) = Cardinality(DOMAIN rows)

\* C8: at most one call is between its lock and its return.
C8_MutualExclusion ==
    Cardinality({p \in Procs : InCritical(p) \/ (pc[p] = "done" /\ mu = p)}) <= 1

C8_Witness ==
    \E p, q \in Procs :
        /\ pc[p] = "save_rename"
        /\ mu = p
        /\ pc[q] = "delete_lock"
        /\ call[q].id = call[p].id

\* C9 (as claimed): in every reachable state every row has a file at its
\* resolved path.
C9_EveryRowHasFile ==
    \A k \in DOMAIN rows : Exists(files, MirrorPathOf(rows, k))

\* C10 (as claimed, for the ids that resolve under the mirror root): when
\* Save or Delete returns an error, the file and the row of its id are as
\* they were when the call started.
C10_FailedCallChangesNothing ==
    [][\A p \in Procs :
        ( /\ pc[p] # "done"
          /\ pc'[p] = "done"
          /\ call'[p].op \in {"Save", "Delete"}
          /\ UnderRoot(call'[p].path, AuthDir)
          /\ ret'[p].err # "" )
        => /\ FileAt(files', call'[p].path) = FileAt(pre'[p].files, call'[p].path)
           /\ RowAt(rows', call'[p].id) = RowAt(pre'[p].rows, call'[p].id)]_vars

\* a non-disabled Save of p holds the lock and has resolved its path
SaveInProgress(p) ==
    /\ call[p].op = "Save"
    /\ ~call[p].disabled
    /\ mu = p
    /\ pc[p] \in {"save_mkdir", "save_write_tmp", "save_rename", "save_persist"}

SaveSucceeded(p) ==
    /\ call[p].op = "Save"
    /\ ~call[p].disabled
    /\ pc[p] = "done"
    /\ ret[p].err = ""

\* C12 (as claimed): after a successful non-disabled Save(r), Get(r.ID)
\* finds a record with the saved metadata whose attributes.path is the path
\* Save returned, and the file Save wrote is at that path.
C12_SaveThenGet ==
    \A p \in Procs :
        SaveSucceeded(p)
        => LET got == Get(rows, call[p].id)
           IN  /\ got.err = ""
               /\ got.found
               /\ got.metadata = call[p].meta
               /\ got.path = ret[p].path
               /\ FileAt(files, ret[p].path) = Marshal(call[p].meta)

(***************************************************************************)
(* The records: provider_credentials with all its columns, the payload     *)
(* Get decodes, the clock and the modification times of the files.  The    *)
(* calls are whole here: Store.mu serialises them.                         *)
(***************************************************************************)
MaxTime == 3
MaxOps == 3

\* the zero value of time.Time
ZeroTime == 0

\* JSON values of a metadata field: missing, not a string, or a string
Absent == [kind |-> "absent", str |-> <<>>]
Number == [kind |-> "number", str |-> <<>>]
Str(chars) == [kind |-> "string", str |-> chars]

\* strings.ToLower
LowerChar(c) == IF c = "G" THEN "g" ELSE c
ToLower(str) == [i \in 1..Len(str) |-> LowerChar(str[i])]

Unknown == <<"u", "n", "k", "n", "o", "w", "n">>

\* normalizeProvider(metadata["type"])
normalizeProvider(value) ==
    IF value.kind = "string" /\ TrimSpace(value.str) # <<>>
    THEN ToLower(TrimSpace(value.str))
    ELSE Unknown

\* a field that is a string with something other than white space in it
Usable(value) == value.kind = "string" /\ TrimSpace(value.str) # <<>>

\* preferredLabel with email looked at first
preferredLabelEmailFirst(meta) ==
    IF Usable(meta.email) THEN TrimSpace(meta.email.str)
    ELSE IF Usable(meta.label) THEN TrimSpace(meta.label.str)
    ELSE IF Usable(meta.project_id) THEN TrimSpace(meta.project_id.str)
    ELSE <<>>

\* preferredLabel: label, then email, then project_id
preferredLabel(meta) ==
    IF Usable(meta.label) THEN TrimSpace(meta.label.str)
    ELSE IF Usable(meta.email) THEN TrimSpace(meta.email.str)
    ELSE IF Usable(meta.project_id) THEN TrimSpace(meta.project_id.str)
    ELSE <<>>

\* metadata maps: of the files the auth subsystem writes, and of Save's callers
TypeValues == {Absent, Number, Str(<<" ">>), Str(<<" ", "G">>)}
LabelValues == {Absent, Str(<<" ">>), Str(<<"x", " ">>)}
EmailValues == {Absent, Str(<<"y">>)}
ProjectValues == {Absent, Str(<<"z">>)}
FileMetas == [type : TypeValues, label : LabelValues, email : EmailValues,
              project_id : ProjectValues]
SaveMetas == [type : {Absent, Str(<<"g">>)}, label : {Str(<<"x", " ">>)}, email : {Absent},
              project_id : {Absent}]
Providers == {<<"G">>}
RecIds == {IdA, IdB}
RecPaths == {PathB}
Times == ZeroTime..MaxTime
RecAuths == [id : RecIds, fileName : {EmptyString, IdA}, provider : Providers, meta : SaveMetas,
             createdAt : Times, disabled : BOOLEAN]
\* what a file can hold: nothing, bytes that are no JSON object, a JSON object
FileContents == {<<>>, Partial} \cup {Marshal(m) : m \in FileMetas}
\* what the auth subsystem writes while the store runs
WrittenMetas == [type : {Absent, Str(<<" ", "G">>)}, label : {Str(<<"x", " ">>)},
                 email : {Absent, Str(<<"y">>)}, project_id : {Absent}]
WrittenContents == {<<>>, Partial} \cup {Marshal(m) : m \in WrittenMetas}

StatusActive == "active"

\* json.Marshal(auth): the payload column
Payload(auth) ==
    [id |-> auth.id, provider |-> auth.provider, label |-> auth.label, status |-> auth.status,
     path |-> auth.path, metadata |-> auth.meta, created_at |-> auth.createdAt,
     updated_at |-> auth.updatedAt]

\* persistRecord with created_at overwritten on conflict
persistRecordReplace(tbl, auth) ==
    LET rel == IF auth.fileName = <<>> THEN auth.id ELSE auth.fileName
        row == [provider |-> ToLower(TrimSpace(auth.provider)), label |-> auth.label,
                file_name |-> rel, payload |-> Payload(auth),
                created_at |-> auth.createdAt, updated_at |-> auth.updatedAt]
    IN  [k \in (DOMAIN tbl) \cup {auth.id} |-> IF k = auth.id THEN row ELSE tbl[k]]

\* Store.persistRecord with every column: INSERT ... ON CONFLICT (id) DO
\* UPDATE SET provider, label, file_name, payload, updated_at
persistRecordColumns(tbl, auth) ==
    LET rel == IF auth.fileName = <<>> THEN auth.id ELSE auth.fileName
        row == [provider |-> ToLower(TrimSpace(auth.provider)), label |-> auth.label,
                file_name |-> rel, payload |-> Payload(auth),
                created_at |-> IF HasRow(tbl, auth.id) THEN tbl[auth.id].created_at
                               ELSE auth.createdAt,
                updated_at |-> auth.updatedAt]
    IN  [k \in (DOMAIN tbl) \cup {auth.id} |-> IF k = auth.id THEN row ELSE tbl[k]]

\* Get without strings.TrimSpace
GetRecordRaw(tbl, rawId) ==
    IF rawId = <<>> \/ ~HasRow(tbl, rawId)
    THEN [found |-> FALSE, auth |-> <<>>]
    ELSE [found |-> TRUE,
          auth |-> [tbl[rawId].payload EXCEPT
                        !.path = applyMirrorPath(rawId, tbl[rawId].file_name)]]

\* Store.Get with the decoded payload: [found, auth]
GetRecord(tbl, rawId) ==
    LET id == TrimSpace(rawId)
    IN  IF id = <<>> \/ ~HasRow(tbl, id)
        THEN [found |-> FALSE, auth |-> Payload([id |-> <<>>, provider |-> <<>>,
                 label |-> <<>>, status |-> "", path |-> <<>>, meta |-> Absent,
                 createdAt |-> ZeroTime, updatedAt |-> ZeroTime])]
        ELSE [found |-> TRUE,
              auth |-> [tbl[id].payload EXCEPT !.path = applyMirrorPath(id, tbl[id].file_name)]]

\* last: the call made last, its number, argument and result, and the history
\* the properties need (first: created_at after the first Save of an id that
\* still has its row; ingested: ids whose row PersistAuthFiles has written;
\* had: the id had a row before the call)
RecStart == [op |-> "none", n |-> 0, id |-> <<>>, path |-> <<>>, err |-> "", time |-> ZeroTime,
             createdAt |-> ZeroTime, first |-> <<>>, ingested |-> {}, had |-> FALSE]

Called(op, id, path, err) ==
    [last EXCEPT !.op = op, !.n = last.n + 1, !.id = id, !.path = path, !.err = err,
                 !.time = now, !.had = HasRow(table, id)]

InitRecords ==
    /\ files = (PathOutside :> Marshal("m1"))
    /\ rows = <<>>
    /\ mu = NoProc
    /\ pc = [p \in Procs |-> "idle"]
    /\ call = [p \in Procs |-> NoCall]
    /\ pre = [p \in Procs |-> NoPre]
    /\ ret = [p \in Procs |-> NoRet]
    /\ calls = 0
    /\ faults = 0
    /\ PathIdle
    /\ PgIdle
    /\ WatchIdle
    /\ LockIdle
    /\ ApiIdle
    /\ table = <<>>
    /\ disk = <<>>
    /\ now = 1
    /\ last = RecStart

\* the clock advances
Tick ==
    /\ now < MaxTime
    /\ now' = now + 1
    /\ UNCHANGED <<storeVars, pathVars, pgVars, watchVars, lockVars, apiVars, table, disk, last>>

\* Store.Save, lines 237-290, every step succeeding
RecSave(auth) ==
    /\ last.n < MaxOps
    /\ TrimSpace(auth.id) # <<>>
    /\ LET r == resolvePath(auth)
           created == IF auth.createdAt = ZeroTime THEN now ELSE auth.createdAt
           stored == [id |-> auth.id, fileName |-> r.rel, provider |-> auth.provider,
                      label |-> <<>>, status |-> StatusActive, path |-> r.abs,
                      meta |-> auth.meta, createdAt |-> created, updatedAt |-> now]
       IN  /\ r.err = ""
           /\ IF auth.disabled
              THEN /\ disk' = RemoveFile(disk, r.abs)
                   /\ table' = deleteRecord(table, r.rel)
                   /\ last' = [Called("SaveDisabled", auth.id, <<>>, "")
                                  EXCEPT !.first = DeleteRow(last.first, r.rel),
                                         !.ingested = last.ingested \ {r.rel}]
              ELSE /\ disk' = WriteFile(disk, r.abs, [data |-> Marshal(auth.meta), mtime |-> now])
                   /\ table' = persistRecordColumns(table, stored)
                   /\ last' = [Called("Save", auth.id, r.abs, "")
                                  EXCEPT !.createdAt = auth.createdAt,
                                         !.first = IF auth.id \in DOMAIN last.first
                                                   THEN last.first
                                                   ELSE (auth.id :> created) @@ last.first]
    /\ UNCHANGED <<storeVars, pathVars, pgVars, watchVars, lockVars, apiVars, now>>

\* Store.PersistAuthFiles with one path, lines 108-167, the file-system and
\* database calls succeeding
RecIngest(raw) ==
    /\ last.n < MaxOps
    /\ LET path == TrimSpace(raw)
           full == ensureAbsolute(path)
           rel == relativeName(full)
       IN  /\ path # <<>>
           /\ disk' = disk
           /\ IF ~Exists(disk, full)
              THEN IF rel.err = ""
                   THEN /\ table' = deleteRecord(table, rel.val)
                        /\ last' = [Called("IngestRemoved", rel.val, full, "")
                                       EXCEPT !.first = DeleteRow(last.first, rel.val),
                                              !.ingested = last.ingested \ {rel.val}]
                   ELSE /\ table' = table
                        /\ last' = Called("IngestSkipped", <<>>, full, "")
              ELSE IF disk[full].data = <<>>
              THEN /\ table' = table
                   /\ last' = Called("IngestSkipped", <<>>, full, "")
              ELSE IF ~IsJSON(disk[full].data)
              THEN /\ table' = table
                   /\ last' = Called("IngestFailed", <<>>, full, "invalid json")
              ELSE IF rel.err # ""
              THEN /\ table' = table
                   /\ last' = Called("IngestFailed", <<>>, full, rel.err)
              ELSE LET metadata == Unmarshal(disk[full].data)
                       mod == disk[full].mtime
                       auth == [id |-> rel.val, fileName |-> rel.val,
                                provider |-> normalizeProvider(metadata.type),
                                label |-> preferredLabel(metadata),
                                status |-> StatusActive, path |-> full, meta |-> metadata,
                                createdAt |-> mod, updatedAt |-> mod]
                   IN  /\ table' = persistRecordColumns(table, auth)
                       /\ last' = [Called("Ingest", rel.val, full, "")
                                      EXCEPT !.ingested = last.ingested \cup {rel.val}]
    /\ UNCHANGED <<storeVars, pathVars, pgVars, watchVars, lockVars, apiVars, now>>

\* the auth subsystem writes or replaces a file under authDir
ExtWrite(path, data) ==
    /\ last.n < MaxOps
    /\ disk' = WriteFile(disk, path, [data |-> data, mtime |-> now])
    /\ last' = Called("ExtWrite", <<>>, path, "")
    /\ UNCHANGED <<storeVars, pathVars, pgVars, watchVars, lockVars, apiVars, now, table>>

\* the auth subsystem removes a file
ExtRemove(path) ==
    /\ last.n < MaxOps
    /\ Exists(disk, path)
    /\ disk' = RemoveFile(disk, path)
    /\ last' = Called("ExtRemove", <<>>, path, "")
    /\ UNCHANGED <<storeVars, pathVars, pgVars, watchVars, lockVars, apiVars, now, table>>

NextRecords ==
    \/ Tick
    \/ \E auth \in RecAuths : RecSave(auth)
    \/ \E path \in RecPaths : RecIngest(path)
    \/ \E path \in RecPaths, data \in WrittenContents : ExtWrite(path, data)
    \/ \E path \in RecPaths : ExtRemove(path)

SpecRecords == InitRecords /\ [][NextRecords]_vars

(***************************************************************************)
(* Ingestion alone: the store starts on a directory that holds any file    *)
(* the auth subsystem may have written; no Save.                           *)
(***************************************************************************)
InitIngest ==
    /\ files = (PathOutside :> Marshal("m1"))
    /\ rows = <<>>
    /\ mu = NoProc
    /\ pc = [p \in Procs |-> "idle"]
    /\ call = [p \in Procs |-> NoCall]
    /\ pre = [p \in Procs |-> NoPre]
    /\ ret = [p \in Procs |-> NoRet]
    /\ calls = 0
    /\ faults = 0
    /\ PathIdle
    /\ PgIdle
    /\ WatchIdle
    /\ LockIdle
    /\ ApiIdle
    /\ table = <<>>
    /\ \E path \in RecPaths, data \in FileContents :
            disk = (path :> [data |-> data, mtime |-> 1])
    /\ now = 1
    /\ last = RecStart

NextIngest ==
    \/ Tick
    \/ \E path \in RecPaths : RecIngest(path)
    \/ \E path \in RecPaths, data \in WrittenContents : ExtWrite(path, data)
    \/ \E path \in RecPaths : ExtRemove(path)

SpecIngest == InitIngest /\ [][NextIngest]_vars

\* C13 (as claimed): every record Get returns after a Save has
\* updated_at >= created_at, whatever CreatedAt the caller passed.
C13_UpdatedNotBeforeCreated ==
    last.op = "Save"
    => LET got == GetRecord(table, last.id)
       IN  got.found => got.auth.updated_at >= got.auth.created_at

\* C14 (as claimed): over Save calls on one id, the created_at Get returns
\* stays the one of the first Save, and updated_at is the time of the latest.
C14_CreatedAtStampedOnce ==
    (last.op = "Save" /\ last.id \notin last.ingested)
    => LET got == GetRecord(table, last.id)
       IN  /\ got.found
           /\ got.auth.created_at = last.first[last.id]
           /\ got.auth.updated_at = last.time

IngestOps == {"Ingest", "IngestSkipped", "IngestFailed", "IngestRemoved"}

\* this step is a PersistAuthFiles call that upserts a row PersistAuthFiles
\* has written before
Reingested ==
    /\ last'.n = last.n + 1
    /\ last'.op = "Ingest"
    /\ HasRow(table, last'.id)
    /\ last'.id \in last.ingested

\* the file was not written since the previous call, which ingested it
FileUnchanged == last.op = "Ingest" /\ last.path = last'.path

\* C17 (as claimed): ingesting an unchanged file again leaves the row as it
\* was, and ingesting a modified file changes only payload and updated_at.
C17_IngestChangesContentOnly ==
    [][Reingested
        => LET old == table[last'.id]
               new == table'[last'.id]
           IN  /\ FileUnchanged => new = old
               /\ new.provider = old.provider
               /\ new.label = old.label
               /\ new.file_name = old.file_name
               /\ new.created_at = old.created_at]_vars

\* C17 (amended): ingesting an unchanged file again leaves the table as it
\* was; ingesting a modified file leaves the other rows, the row's file_name
\* and its created_at column as they were, sets payload and updated_at from
\* the file, and changes provider or label only when the file's fields
\* changed.
C17_IngestIdempotent ==
    [][Reingested
        => LET old == table[last'.id]
               new == table'[last'.id]
               file == disk[last'.path]
               was == old.payload.metadata
               is == Unmarshal(file.data)
           IN  /\ FileUnchanged => table' = table
               /\ DOMAIN table' = DOMAIN table
               /\ \A k \in DOMAIN table : k # last'.id => table'[k] = table[k]
               /\ new.file_name = old.file_name
               /\ new.created_at = old.created_at
               /\ new.updated_at = file.mtime
               /\ new.payload.metadata = is
               /\ new.provider # old.provider => is.type # was.type
               /\ new.label # old.label
                    => <<is.label, is.email, is.project_id>>
                         # <<was.label, was.email, was.project_id>>]_vars

\* a file modified after its first ingestion has been ingested again: the
\* row has the new modification time and provider, and its first created_at
C17_Witness ==
    /\ last.op = "Ingest"
    /\ HasRow(table, last.id)
    /\ table[last.id].updated_at > table[last.id].created_at
    /\ table[last.id].provider # normalizeProvider(Absent)
    /\ last.n = MaxOps

\* C18: ingesting an existing file that holds a JSON object upserts the row
\* keyed by the file's name relative to authDir; its provider is the trimmed,
\* lower-cased type field, or "unknown" when type is missing, blank or not a
\* string; its label is the first of label, email, project_id that is a
\* non-blank string, trimmed, or empty when there is none.
C18_ProviderAndLabelDerived ==
    [][(/\ last'.n = last.n + 1
        /\ last'.op \in IngestOps
        /\ Exists(disk, last'.path)
        /\ IsJSON(disk[last'.path].data))
        => /\ last'.op = "Ingest"
           /\ Join(AuthDir, last'.id) = last'.path
           /\ HasRow(table', last'.id)
           /\ LET m == Unmarshal(disk[last'.path].data)
                  row == table'[last'.id]
                  fields == <<m.label, m.email, m.project_id>>
                  usable == {i \in 1..3 : Usable(fields[i])}
              IN  /\ Usable(m.type) => row.provider = ToLower(TrimSpace(m.type.str))
                  /\ ~Usable(m.type) => row.provider = Unknown
                  /\ usable = {} => row.label = <<>>
                  /\ \A i \in usable :
                        (\A j \in usable : i <= j) => row.label = TrimSpace(fields[i].str)
                  /\ row.payload.provider = row.provider
                  /\ row.payload.label = row.label]_vars

\* a file with an upper-case type, a blank label and an email was ingested
C18_Witness ==
    /\ last.op = "Ingest"
    /\ HasRow(table, last.id)
    /\ table[last.id].provider = <<"g">>
    /\ table[last.id].label = <<"y">>
    /\ table[last.id].payload.metadata.label = Str(<<" ">>)

PgIds == {IdA, IdB}
PgContents == {"c1", "c2"}
PgTables == UNION {[ids -> PgContents] : ids \in SUBSET PgIds}

\* files on the host when the process starts: the mirror of a row, a file
\* under the auth directory that has no row, a file outside it
PgPathA == <<"/", "s", "/", "t", "/", "a">>
PgPathStale == <<"/", "s", "/", "t", "/", "c">>
PgDisks == UNION {[paths -> {"c1"}] : paths \in SUBSET {PgPathA, PgPathStale, PathOutside}}

\* the content a failed os.WriteFile can leave
PgPartial == "partial"

\* the directory is not cleared
KeepAll(fs, root) == fs

\* os.RemoveAll(s.authDir) followed by os.MkdirAll(s.authDir)
RemoveAll(fs, root) == [q \in {f \in DOMAIN fs : ~UnderRoot(f, root)} |-> fs[q]]

\* no error is taken for a failure
NeverFailed(sy) == FALSE

\* SyncFromDatabase returned an error (embed.go line 216)
SyncFailed(sy) == sy.pc = "failed"

StartIdle == [pc |-> "off", dsn |-> FALSE, schema |-> FALSE, synced |-> FALSE,
              registered |-> FALSE, built |-> FALSE, running |-> FALSE, err |-> ""]
SyncStart == [pc |-> "idle", rows |-> <<>>, todo |-> {}]

InitStart ==
    /\ files = (PathOutside :> Marshal("m1"))
    /\ rows = <<>>
    /\ mu = NoProc
    /\ pc = [p \in Procs |-> "idle"]
    /\ call = [p \in Procs |-> NoCall]
    /\ pre = [p \in Procs |-> NoPre]
    /\ ret = [p \in Procs |-> NoRet]
    /\ calls = 0
    /\ faults = 0
    /\ PathIdle
    /\ RecIdle
    /\ WatchIdle
    /\ LockIdle
    /\ ApiIdle
    /\ pgRows \in PgTables
    /\ pgFiles \in PgDisks
    /\ \E dsn \in BOOLEAN : start = [StartIdle EXCEPT !.dsn = dsn]
    /\ sync = SyncStart

StartFails(msg) == start' = [start EXCEPT !.pc = "failed", !.err = msg]

\* embed.go lines 181-197: config path, os.Stat, LoadConfig
StartConfig ==
    /\ start.pc = "off"
    /\ \/ StartFails("config")
       \/ start' = [start EXCEPT !.pc = "env"]
    /\ UNCHANGED <<storeVars, pathVars, recVars, watchVars, lockVars, apiVars, pgRows, pgFiles, sync>>

\* lines 200-211: PGSTORE_DSN, NewPostgresTokenStore
StartStore ==
    /\ start.pc = "env"
    /\ IF start.dsn
       THEN \/ StartFails("init postgres token store")
            \/ start' = [start EXCEPT !.pc = "schema"]
       ELSE start' = [start EXCEPT !.pc = "build"]
    /\ UNCHANGED <<storeVars, pathVars, recVars, watchVars, lockVars, apiVars, pgRows, pgFiles, sync>>

\* lines 213-215: store.EnsureSchema
StartSchema ==
    /\ start.pc = "schema"
    /\ \/ StartFails("ensure postgres token schema")
       \/ start' = [start EXCEPT !.pc = "sync", !.schema = TRUE]
    /\ UNCHANGED <<storeVars, pathVars, recVars, watchVars, lockVars, apiVars, pgRows, pgFiles, sync>>

\* line 216: store.SyncFromDatabase is called;
\* postgres_token_store.go lines 133-138: the SELECT
SyncQuery ==
    /\ start.pc = "sync"
    /\ sync.pc = "idle"
    /\ \/ sync' = [sync EXCEPT !.pc = "failed"]
       \/ sync' = [pc |-> "reset", rows |-> pgRows, todo |-> DOMAIN pgRows]
    /\ UNCHANGED <<storeVars, pathVars, recVars, watchVars, lockVars, apiVars, pgRows, pgFiles, start>>

\* lines 140-145: os.RemoveAll(s.authDir), os.MkdirAll(s.authDir); a failed
\* RemoveAll has removed none, some or all of the files
SyncReset ==
    /\ sync.pc = "reset"
    /\ \/ /\ sync' = [sync EXCEPT !.pc = "failed"]
          /\ \E gone \in SUBSET {f \in DOMAIN pgFiles : UnderRoot(f, PgAuthDir)} :
                pgFiles' = [q \in (DOMAIN pgFiles) \ gone |-> pgFiles[q]]
       \/ /\ sync' = [sync EXCEPT !.pc = "write"]
          /\ pgFiles' = RemoveAll(pgFiles, PgAuthDir)
    /\ UNCHANGED <<storeVars, pathVars, recVars, watchVars, lockVars, apiVars, pgRows, start>>

\* lines 147-165: one row of the result: absoluteAuthPath, MkdirAll, WriteFile
SyncWrite ==
    /\ sync.pc = "write"
    /\ \E id \in sync.todo :
        LET path == absoluteAuthPath(id)
        IN  IF path.err # ""
            THEN /\ sync' = [sync EXCEPT !.todo = sync.todo \ {id}]
                 /\ pgFiles' = pgFiles
            ELSE \/ /\ sync' = [sync EXCEPT !.pc = "failed"]
                    /\ pgFiles' \in {pgFiles, WriteFile(pgFiles, path.val, PgPartial)}
                 \/ /\ sync' = [sync EXCEPT !.todo = sync.todo \ {id}]
                    /\ pgFiles' = WriteFile(pgFiles, path.val, sync.rows[id])
    /\ UNCHANGED <<storeVars, pathVars, recVars, watchVars, lockVars, apiVars, pgRows, start>>

\* lines 166-170: rows.Err(), return nil
SyncReturn ==
    /\ sync.pc = "write"
    /\ sync.todo = {}
    /\ \/ sync' = [sync EXCEPT !.pc = "failed"]
       \/ sync' = [sync EXCEPT !.pc = "done"]
    /\ UNCHANGED <<storeVars, pathVars, recVars, watchVars, lockVars, apiVars, pgRows, pgFiles, start>>

\* embed.go lines 216-222: the error check, cfg.AuthDir, RegisterTokenStore
StartRegister ==
    /\ start.pc = "sync"
    /\ sync.pc \in {"done", "failed"}
    /\ IF SyncFailed(sync)
       THEN StartFails("sync auth from postgres")
       ELSE start' = [start EXCEPT !.pc = "build", !.synced = (sync.pc = "done"),
                                   !.registered = TRUE]
    /\ UNCHANGED <<storeVars, pathVars, recVars, watchVars, lockVars, apiVars, pgRows, pgFiles, sync>>

\* lines 225-234: builder.Build()
StartBuild ==
    /\ start.pc = "build"
    /\ \/ StartFails("build cliproxy service")
       \/ start' = [start EXCEPT !.pc = "run", !.built = TRUE]
    /\ UNCHANGED <<storeVars, pathVars, recVars, watchVars, lockVars, apiVars, pgRows, pgFiles, sync>>

\* lines 236-242: go svc.Run(ctx); return the service
StartRun ==
    /\ start.pc = "run"
    /\ start' = [start EXCEPT !.pc = "returned", !.running = TRUE]
    /\ UNCHANGED <<storeVars, pathVars, recVars, watchVars, lockVars, apiVars, pgRows, pgFiles, sync>>

NextStart ==
    \/ StartConfig
    \/ StartStore
    \/ StartSchema
    \/ SyncQuery
    \/ SyncReset
    \/ SyncWrite
    \/ SyncReturn
    \/ StartRegister
    \/ StartBuild
    \/ StartRun

SpecStart == InitStart /\ [][NextStart]_vars

\* the files under the auth directory of PostgresTokenStore
PgMirrorFiles == {f \in DOMAIN pgFiles : UnderRoot(f, PgAuthDir)}

C16_SyncBeforeService ==
    /\ (start.dsn /\ (start.registered \/ start.built \/ start.running))
        => (start.schema /\ start.synced /\ sync.pc = "done")
    /\ start.registered => start.dsn
    /\ start.running => (start.built /\ start.err = "")
    /\ start.err # "" => (start.pc = "failed" /\ ~start.built /\ ~start.running)
    /\ (start.dsn /\ sync.pc \notin {"idle", "done"}) => start.pc \in {"sync", "failed"}
    /\ sync.pc = "failed" => ~start.registered

\* the service runs with the Postgres store after a completed rebuild
C16_Witness ==
    /\ start.running
    /\ start.dsn
    /\ start.registered
    /\ sync.pc = "done"
    /\ DOMAIN pgRows # {}

(***************************************************************************)
(* The auth subsystem writes and removes files under authDir, and its      *)
(* watcher passes every changed path to PersistAuthFiles.                  *)
(***************************************************************************)
MaxWrites == 2

PathA == <<"/", "r", "/", "a">>
WatchPaths == {PathA, PathB}
\* a JSON object, or bytes that are not JSON
WatchContents == {Marshal("m1"), Partial}

\* the batches the watcher can pass: changed paths, each once
WatchBatches(changed) ==
    {b \in UNION {[1..n -> changed] : n \in 1..MaxBatch} :
        \A i, j \in 1..Len(b) : i # j => b[i] # b[j]}

InitWatch ==
    /\ files = (PathOutside :> Marshal("m1"))
    /\ rows = <<>>
    /\ mu = NoProc
    /\ pc = [p \in Procs |-> "idle"]
    /\ call = [p \in Procs |-> NoCall]
    /\ pre = [p \in Procs |-> NoPre]
    /\ ret = [p \in Procs |-> NoRet]
    /\ calls = 0
    /\ faults = 0
    /\ PathIdle
    /\ RecIdle
    /\ PgIdle
    /\ dirty = {}
    /\ writes = 0
    /\ LockIdle
    /\ ApiIdle

\* the auth subsystem creates or replaces a file
WatchedWrite(path, data) ==
    /\ writes < MaxWrites
    /\ writes' = writes + 1
    /\ files' = WriteFile(files, path, data)
    /\ dirty' = dirty \cup {path}
    /\ UNCHANGED <<rows, mu, pc, call, pre, ret, calls, faults, pathVars, recVars, pgVars, lockVars, apiVars>>

\* the auth subsystem removes a file
WatchedRemove(path) ==
    /\ writes < MaxWrites
    /\ Exists(files, path)
    /\ writes' = writes + 1
    /\ files' = RemoveFile(files, path)
    /\ dirty' = dirty \cup {path}
    /\ UNCHANGED <<rows, mu, pc, call, pre, ret, calls, faults, pathVars, recVars, pgVars, lockVars, apiVars>>

\* the watcher calls PersistAuthFiles (lines 108-111) with changed paths
WatchCall(p, paths) ==
    /\ pc[p] = "idle"
    /\ paths \in WatchBatches(dirty)
    /\ dirty' = dirty \ {paths[i] : i \in 1..Len(paths)}
    /\ call' = [call EXCEPT ![p] = [NoCall EXCEPT !.op = "PersistAuthFiles", !.paths = paths,
                    !.concurrent = (mu # NoProc)]]
    /\ Goto(p, "persist_lock")
    /\ UNCHANGED <<files, rows, mu, pre, calls, faults, writes, pathVars, recVars, pgVars, lockVars, apiVars>>

\* the steps of the watcher and of the calls it has made
WatchProgress ==
    \/ \E p \in Procs, paths \in WatchBatches(WatchPaths) : WatchCall(p, paths)
    \/ \E p \in Procs : PersistLock(p)
    \/ \E p \in Procs : PersistRead(p)
    \/ \E p \in Procs : PersistUpsert(p)
    \/ \E p \in Procs : PersistDelete(p)
    \/ \E p \in Procs : Finish(p)

NextWatch ==
    \/ \E path \in WatchPaths, data \in WatchContents : WatchedWrite(path, data)
    \/ \E path \in WatchPaths : WatchedRemove(path)
    \/ \E p \in Procs, paths \in WatchBatches(WatchPaths) : WatchCall(p, paths)
    \/ \E p \in Procs : PersistLock(p)
    \/ \E p \in Procs : PersistRead(p) /\ NoFault
    \/ \E p \in Procs : PersistUpsert(p) /\ NoFault
    \/ \E p \in Procs : PersistDelete(p) /\ NoFault
    \/ \E p \in Procs : Finish(p)

\* every changed path is passed eventually and every call runs to its return
\* (no file-system or database step fails: NextWatch has no failing step)
SpecWatch == InitWatch /\ [][NextWatch]_vars /\ WF_vars(WatchProgress)

\* the table has a row for every file under authDir that holds a JSON object,
\* and no row whose file is gone
Agreement ==
    /\ \A f \in MirrorFiles :
            IsJSON(files[f]) => \E k \in DOMAIN rows : MirrorPathOf(rows, k) = f
    /\ \A k \in DOMAIN rows : Exists(files, MirrorPathOf(rows, k))

\* C20 (as claimed): once the external writes have stopped and every changed
\* path has been passed to PersistAuthFiles, the table and the files agree
\* from some point on.
C20_EventualAgreement == <>[]Agreement

(***************************************************************************)
(* The HTTP server: main chooses the management key, the router injects it *)
(* into proxied management requests, and the credentials handler guards    *)
(* the CRUD endpoints with it.  A handler runs whole; the operations it    *)
(* invokes on the repository and on the runtime manager are logged in the  *)
(* order of the calls.                                                     *)
(***************************************************************************)
MaxRequests == 2

KeyK == <<"k">>
KeyX == <<"x">>
Blank == <<" ">>
\* a bcrypt hash, as remote-management.secret-key holds it
HashedSecret == <<"$", "2", "h">>
\* LOCAL_MANAGEMENT_PASSWORD and MANAGEMENT_PASSWORD; secret-key of the config
LocalValues == {EmptyString, Blank, KeyK}
ManagementValues == {EmptyString, KeyK}
SecretValues == {EmptyString, HashedSecret}

\* main.go lines 50-62: the key passed to the handler and to the router
localManagementKey(local, management, secret) ==
    IF TrimSpace(local) # <<>> THEN TrimSpace(local)
    ELSE IF TrimSpace(management) # <<>> THEN TrimSpace(management)
    ELSE secret

\* paths of proxied requests, in the pieces the router's prefixes are made of
Cliproxy == "/cliproxy"
ProxyPaths == {<<Cliproxy>>, <<Cliproxy, "/v0/management", "/config">>,
               <<Cliproxy, "/management", ".html">>, <<Cliproxy, "/v1", "/models">>}

\* strings.TrimPrefix
TrimPrefix(s, prefix) ==
    IF HasPrefix(s, prefix) THEN SubSeq(s, Len(prefix) + 1, Len(s)) ELSE s

\* router.New, lines 99-108: the X-Management-Key header the proxy forwards
\* for a request that arrived with the header value sent: [set, value]
injectManagementKey(managementKey, urlPath, sent) ==
    LET trimmed == TrimPrefix(urlPath, <<Cliproxy>>)
        path == IF trimmed = <<>> THEN <<"/">> ELSE trimmed
    IN  IF /\ managementKey # <<>>
           /\ (HasPrefix(path, <<"/v0/management">>) \/ HasPrefix(path, <<"/management">>))
        THEN [set |-> TRUE, value |-> managementKey]
        ELSE [set |-> FALSE, value |-> sent]

\* strings.EqualFold
FoldChar(c) == IF c = "B" THEN "b" ELSE LowerChar(c)
EqualFold(a, b) ==
    /\ Len(a) = Len(b)
    /\ \A i \in 1..Len(a) : FoldChar(a[i]) = FoldChar(b[i])

\* strings.SplitN(s, " ", 2)
SplitN2(s) ==
    IF \E i \in 1..Len(s) : s[i] = " "
    THEN LET i == CHOOSE j \in 1..Len(s) : s[j] = " " /\ \A h \in 1..(j - 1) : s[h] # " "
         IN  <<SubSeq(s, 1, i - 1), SubSeq(s, i + 1, Len(s))>>
    ELSE <<s>>

BearerScheme == <<"b", "e", "a", "r", "e", "r">>

\* every request passes
authorizeAny(managementKey, xkey, authorization) == TRUE

\* Handler.authorize, lines 194-211
authorize(managementKey, xkey, authorization) ==
    LET configured == TrimSpace(managementKey)
        fromKey == TrimSpace(xkey)
        ah == TrimSpace(authorization)
        parts == SplitN2(ah)
        candidate == IF fromKey # <<>> THEN fromKey
                     ELSE IF ah = <<>> THEN <<>>
                     ELSE IF Len(parts) = 2 /\ EqualFold(parts[1], BearerScheme)
                     THEN TrimSpace(parts[2])
                     ELSE ah
    IN  configured = <<>> \/ candidate = configured

\* header values of the requests
Bearer(k) == <<"B", "e", "a", "r", "e", "r", " ">> \o k
LowerBearer(k) == <<"b", "e", "a", "r", "e", "r", " ">> \o k
Basic(k) == <<"B", "a", "s", "i", "c", " ">> \o k
XKeys == {EmptyString, KeyK, KeyX}
Authorizations == {EmptyString, Bearer(KeyK), LowerBearer(KeyK), KeyK, Basic(KeyK), Bearer(KeyX)}
Methods == {"GET", "POST", "DELETE", "PUT"}
\* what follows /api/credentials/ in the URL path
IdSlash == <<"a", "/">>
UrlIds == {EmptyString, IdA, IdB, IdSlash}
\* bodies of POST: bytes that are no JSON object, or a credentialRequest
InvalidBody == [valid |-> FALSE]
Bodies == {InvalidBody} \cup
          [valid : {TRUE}, id : {EmptyString, IdA}, provider : {EmptyString, <<"G">>},
           type : {Absent, Str(<<"h">>)}, disabled : BOOLEAN]
NoBody == [valid |-> FALSE]
\* the requests: every pair of header values on GET /api/credentials; every
\* method on both endpoints with a wrong key and with none; every endpoint,
\* id and body with the key k in X-Management-Key
Request(method, single, id, xkey, authorization, body) ==
    [method |-> method, single |-> single, id |-> id, xkey |-> xkey,
     authorization |-> authorization, body |-> body]
HeaderRequests ==
    {Request("GET", FALSE, EmptyString, x, a, NoBody) : x \in XKeys, a \in Authorizations}
WrongKeyRequests ==
    {Request(m, FALSE, EmptyString, KeyX, Bearer(KeyX), NoBody) : m \in Methods}
    \cup {Request(m, TRUE, IdA, KeyX, Bearer(KeyX), NoBody) : m \in Methods}
    \cup {Request(m, FALSE, EmptyString, EmptyString, EmptyString, NoBody) : m \in Methods}
    \cup {Request(m, TRUE, IdA, EmptyString, EmptyString, NoBody) : m \in Methods}
KeyedRequests ==
    {Request("POST", FALSE, EmptyString, KeyK, EmptyString, b) : b \in Bodies}
    \cup {Request("PUT", FALSE, EmptyString, KeyK, EmptyString, NoBody)}
    \cup {Request(m, TRUE, id, KeyK, EmptyString, NoBody) : m \in Methods, id \in UrlIds}
CollectionRequests == {r \in HeaderRequests \cup WrongKeyRequests \cup KeyedRequests : ~r.single}
SingleRequests == {r \in WrongKeyRequests \cup KeyedRequests : r.single}
\* saves of login flows in one behaviour
MaxLogins == 1
\* records a login flow saves through the registered token store
LoginAuths == [id : {IdA}, fileName : {EmptyString, IdB}, provider : {<<"G">>},
               meta : SaveMetas, createdAt : {ZeroTime}, disabled : {FALSE}]

\* strings.Trim(id, "/")
RECURSIVE TrimSlashes(_)
TrimSlashes(s) ==
    IF s = <<>> THEN s
    ELSE IF Head(s) = "/" THEN TrimSlashes(Tail(s))
    ELSE IF s[Len(s)] = "/" THEN TrimSlashes(SubSeq(s, 1, Len(s) - 1))
    ELSE s

\* uuid.NewString(): a value not used before
NewUuid == IF req.n = 0 THEN "u1" ELSE IF req.n = 1 THEN "u2" ELSE "u3"

\* Store.Save, lines 237-290, whole and with every step succeeding:
\* [err, table, disk]
StoreSave(tbl, dsk, auth, t) ==
    LET r == resolvePath(auth)
        created == IF auth.createdAt = ZeroTime THEN t ELSE auth.createdAt
        stored == [id |-> auth.id, fileName |-> r.rel, provider |-> auth.provider,
                   label |-> <<>>, status |-> StatusActive, path |-> r.abs,
                   meta |-> auth.meta, createdAt |-> created, updatedAt |-> t]
    IN  IF TrimSpace(auth.id) = <<>> THEN [err |-> "id required", table |-> tbl, disk |-> dsk]
        ELSE IF r.err # "" THEN [err |-> r.err, table |-> tbl, disk |-> dsk]
        ELSE IF auth.disabled
        THEN [err |-> "", table |-> deleteRecord(tbl, r.rel), disk |-> RemoveFile(dsk, r.abs)]
        ELSE [err |-> "", table |-> persistRecordColumns(tbl, stored),
              disk |-> WriteFile(dsk, r.abs, [data |-> Marshal(auth.meta), mtime |-> t])]

\* Store.Delete, lines 293-314, whole and with every step succeeding:
\* [err, table, disk]
StoreDelete(tbl, dsk, rawId) ==
    LET id == TrimSpace(rawId)
        path == ensureAbsolute(id)
        rel == relativeName(path)
    IN  IF id = <<>> THEN [err |-> "id required", table |-> tbl, disk |-> dsk]
        ELSE IF rel.err # "" THEN [err |-> rel.err, table |-> tbl, disk |-> RemoveFile(dsk, path)]
        ELSE [err |-> "", table |-> deleteRecord(tbl, rel.val), disk |-> RemoveFile(dsk, path)]

\* the response to request r with the operations the handler invoked; found
\* and path: what the existence check of DELETE returned
Reply(r, status, ops) ==
    [n |-> req.n + 1, kind |-> "credentials", method |-> r.method, single |-> r.single,
     id |-> r.id, xkey |-> r.xkey, authorization |-> r.authorization, body |-> r.body,
     status |-> status, ops |-> ops, found |-> FALSE, path |-> <<>>]

Serving == key.pc = "serving" /\ req.n < MaxRequests

KeyStart == [pc : {"main"}, local : LocalValues, management : ManagementValues,
             secret : SecretValues, chosen : {EmptyString}]

InitApi ==
    /\ files = (PathOutside :> Marshal("m1"))
    /\ rows = <<>>
    /\ mu = NoProc
    /\ pc = [p \in Procs |-> "idle"]
    /\ call = [p \in Procs |-> NoCall]
    /\ pre = [p \in Procs |-> NoPre]
    /\ ret = [p \in Procs |-> NoRet]
    /\ calls = 0
    /\ faults = 0
    /\ PathIdle
    /\ PgIdle
    /\ WatchIdle
    /\ LockIdle
    /\ table = <<>>
    /\ disk = <<>>
    /\ now = 1
    /\ last = RecStart
    /\ read = NoRead
    /\ registry = <<>>
    /\ req = NoReq
    /\ key \in KeyStart

\* main.go lines 50-62 and 99-100: the key is chosen, handler and router are
\* constructed with it
MainKey ==
    /\ key.pc = "main"
    /\ key' = [key EXCEPT !.pc = "serving",
                          !.chosen = localManagementKey(key.local, key.management, key.secret)]
    /\ UNCHANGED <<storeVars, pathVars, recVars, pgVars, watchVars, lockVars,
                   read, registry, req>>

\* router.New, lines 99-110: a request under /cliproxy/ is forwarded
ProxyRequest(urlPath, sent) ==
    /\ Serving
    /\ LET header == injectManagementKey(key.chosen, urlPath, sent)
       IN  req' = [n |-> req.n + 1, kind |-> "proxy", path |-> urlPath, sent |-> sent,
                   injected |-> header.set, forwarded |-> header.value]
    /\ UNCHANGED <<storeVars, pathVars, recVars, pgVars, watchVars, lockVars,
                   read, registry, key>>

\* listCredentials, lines 82-96
listCredentials(r) ==
    /\ \/ req' = Reply(r, 500, <<"List">>)
       \/ req' = Reply(r, 200, <<"List">>)
    /\ UNCHANGED <<table, disk, registry>>

\* manager.Register(ctx, auth) and manager.Update(ctx, auth) of the SDK: the
\* entry is put into the registry and the record is saved through the store,
\* or the save is skipped or fails without an error being returned:
\* the set of [table, disk] the call can leave
Persisted(auth) ==
    LET saved == StoreSave(table, disk, auth, now)
    IN  {[table |-> saved.table, disk |-> saved.disk], [table |-> table, disk |-> disk]}

Entry(auth) == [fileName |-> auth.fileName, provider |-> auth.provider, meta |-> auth.meta,
                disabled |-> auth.disabled]

\* createCredential, lines 111-164
createCredential(r) ==
    IF ~r.body.valid
    THEN /\ req' = Reply(r, 400, <<>>)
         /\ UNCHANGED <<table, disk, registry>>
    ELSE LET provider == TrimSpace(r.body.provider)
             type == IF r.body.type.kind = "absent" THEN Str(provider) ELSE r.body.type
             trimmedId == TrimSpace(r.body.id)
             id == IF trimmedId = <<>>
                   THEN ToLower(provider) \o <<"-", NewUuid, ".json">>
                   ELSE trimmedId
             auth == [id |-> id, fileName |-> id, provider |-> provider,
                      meta |-> [type |-> type, label |-> Absent, email |-> Absent,
                                project_id |-> Absent],
                      createdAt |-> now, disabled |-> r.body.disabled]
         IN  IF provider = <<>>
             THEN /\ req' = Reply(r, 400, <<>>)
                  /\ UNCHANGED <<table, disk, registry>>
             ELSE \/ /\ req' = Reply(r, 500, <<"Register">>)
                     /\ UNCHANGED <<table, disk, registry>>
                  \/ /\ registry' = (id :> Entry(auth)) @@ registry
                     /\ \E after \in Persisted(auth) :
                            /\ table' = after.table
                            /\ disk' = after.disk
                     /\ \/ req' = Reply(r, 500, <<"Register", "Get">>)
                        \/ req' = [Reply(r, 201, <<"Register", "Get">>) EXCEPT !.id = id]

\* Handler.handleCollection, lines 44-58
HandleCollection(r) ==
    /\ Serving
    /\ ~r.single
    /\ IF ~authorize(key.chosen, r.xkey, r.authorization)
       THEN /\ req' = Reply(r, 401, <<>>)
            /\ UNCHANGED <<table, disk, registry>>
       ELSE IF r.method = "GET" THEN listCredentials(r)
       ELSE IF r.method = "POST" THEN createCredential(r)
       ELSE /\ req' = Reply(r, 405, <<>>)
            /\ UNCHANGED <<table, disk, registry>>
    /\ UNCHANGED <<storeVars, pathVars, pgVars, watchVars, lockVars, now, last, read, key>>

\* getCredential, lines 98-109
getCredential(r, id) ==
    /\ \/ req' = Reply(r, 500, <<"Get">>)
       \/ LET got == GetRecord(table, id)
          IN  /\ TrimSpace(id) # <<>>
              /\ req' = [Reply(r, IF got.found THEN 200 ELSE 404, <<"Get">>)
                            EXCEPT !.found = got.found, !.path = got.auth.path]
    /\ UNCHANGED <<table, disk, registry>>

\* deleteCredential, lines 166-192; got: the result of repo.Get, deleted:
\* the store after repo.Delete, updated: the store after the Save of
\* manager.Update
deleteCredential(r, id) ==
    \E got \in {GetRecord(table, id)}, deleted \in {StoreDelete(table, disk, id)} :
        LET seen(reply) == [reply EXCEPT !.found = got.found, !.path = got.auth.path]
        IN  \/ /\ req' = Reply(r, 500, <<"Get">>)
               /\ UNCHANGED <<table, disk, registry>>
            \/ /\ TrimSpace(id) # <<>>
               /\ ~got.found
               /\ req' = seen(Reply(r, 404, <<"Get">>))
               /\ UNCHANGED <<table, disk, registry>>
            \/ /\ got.found
               /\ deleted.err # ""
               /\ req' = seen(Reply(r, 500, <<"Get", "Delete">>))
               /\ table' = deleted.table
               /\ disk' = deleted.disk
               /\ registry' = registry
            \/ /\ got.found
               /\ deleted.err = ""
               /\ IF id \in DOMAIN registry
                  THEN \E auth \in {[id |-> id, fileName |-> registry[id].fileName,
                                     provider |-> registry[id].provider,
                                     meta |-> registry[id].meta, createdAt |-> ZeroTime,
                                     disabled |-> TRUE]} :
                       \E updated \in {StoreSave(deleted.table, deleted.disk, auth, now)} :
                          \/ /\ req' = seen(Reply(r, 500, <<"Get", "Delete", "GetByID", "Update">>))
                             /\ table' = deleted.table
                             /\ disk' = deleted.disk
                             /\ registry' = registry
                          \/ /\ req' = seen(Reply(r, 204, <<"Get", "Delete", "GetByID", "Update">>))
                             /\ registry' = [registry EXCEPT ![id] = Entry(auth)]
                             /\ \/ /\ table' = deleted.table
                                   /\ disk' = deleted.disk
                                \/ /\ table' = updated.table
                                   /\ disk' = updated.disk
                  ELSE /\ req' = seen(Reply(r, 204, <<"Get", "Delete", "GetByID">>))
                       /\ table' = deleted.table
                       /\ disk' = deleted.disk
                       /\ registry' = registry

\* Handler.handleSingle, lines 60-80
HandleSingle(r) ==
    /\ Serving
    /\ r.single
    /\ LET id == TrimSlashes(r.id)
       IN  IF ~authorize(key.chosen, r.xkey, r.authorization)
           THEN /\ req' = Reply(r, 401, <<>>)
                /\ UNCHANGED <<table, disk, registry>>
           ELSE IF id = <<>>
           THEN /\ req' = Reply(r, 400, <<>>)
                /\ UNCHANGED <<table, disk, registry>>
           ELSE IF r.method = "GET" THEN getCredential(r, id)
           ELSE IF r.method = "DELETE" THEN deleteCredential(r, id)
           ELSE /\ req' = Reply(r, 405, <<>>)
                /\ UNCHANGED <<table, disk, registry>>
    /\ UNCHANGED <<storeVars, pathVars, pgVars, watchVars, lockVars, now, last, read, key>>

\* a login flow saves a record through the token store main registered
\* (main.go line 73)
LoginSave(auth) ==
    /\ key.pc = "serving"
    /\ last.n < MaxLogins
    /\ RecSave(auth)

NextApi ==
    \/ MainKey
    \/ \E urlPath \in ProxyPaths, sent \in {EmptyString, KeyX} : ProxyRequest(urlPath, sent)
    \/ \E r \in CollectionRequests : HandleCollection(r)
    \/ \E r \in SingleRequests : HandleSingle(r)
    \/ \E auth \in LoginAuths : LoginSave(auth)

SpecApi == InitApi /\ [][NextApi]_vars

\* the request of req is a call of the credentials endpoints
Credentials == req.n > 0 /\ req.kind = "credentials"

\* header value h is "Bearer <k>", the scheme in any case
InBearerForm(h, k) ==
    /\ Len(h) = Len(BearerScheme) + 1 + Len(k)
    /\ EqualFold(SubSeq(h, 1, Len(BearerScheme)), BearerScheme)
    /\ h[Len(BearerScheme) + 1] = " "
    /\ SubSeq(h, Len(BearerScheme) + 2, Len(h)) = k

\* the request carries k in one of the two headers
Supplies(k) ==
    \/ req.xkey = k
    \/ req.authorization = k
    \/ InBearerForm(req.authorization, k)

\* C21 (as claimed): every row stored through the create endpoint or through
\* Store.Save carries a metadata type equal to the lower-cased provider of
\* the record.
C21_TypeIsLowerProvider ==
    \A k \in DOMAIN table :
        table[k].payload.metadata.type = Str(ToLower(table[k].payload.provider))

C23_AuthorizedByEitherHeader ==
    (Credentials /\ key.chosen # <<>>)
    => /\ (req.xkey = key.chosen \/ InBearerForm(req.authorization, key.chosen))
            => req.status # 401
       /\ (req.status # 401 /\ req.xkey # key.chosen)
            => InBearerForm(req.authorization, key.chosen)

\* C24 (as claimed): DELETE /api/credentials/{id} answers 404 after the
\* existence check alone when Get finds no row; a 204 comes after Get and
\* Delete, and then the row and the file of the record Get found are gone
\* and the registry entry of the id, if there is one, is disabled.
C24_DeleteConfirmsExistence ==
    (Credentials /\ req.single /\ req.method = "DELETE" /\ req.status \notin {400, 401})
    => /\ (~req.found /\ req.status # 500) => (req.status = 404 /\ req.ops = <<"Get">>)
       /\ req.status = 404 => req.ops = <<"Get">>
       /\ req.status = 204
            => /\ req.found
               /\ SubSeq(req.ops, 1, 2) = <<"Get", "Delete">>
               /\ ~HasRow(table, TrimSpace(TrimSlashes(req.id)))
               /\ ~Exists(disk, req.path)
               /\ TrimSlashes(req.id) \in DOMAIN registry
                    => registry[TrimSlashes(req.id)].disabled

\* C27 (as claimed): the value the proxy sets as X-Management-Key on a
\* management request is never the secret-key of the config file.
C27_SecretNeverInjected ==
    (req.n > 0 /\ req.kind = "proxy" /\ req.injected) => req.forwarded # key.secret

(***************************************************************************)
(* The reads of Store: Get and List on a table that Save has filled.       *)
(***************************************************************************)
MaxReads == 2

\* the order of ORDER BY on text: byte order of the characters in use
Alphabet == <<" ", "-", ".", "/", "G", "a", "b", "g", "h", "u">>
Rank(c) == CHOOSE i \in 1..Len(Alphabet) : Alphabet[i] = c
RECURSIVE TextLess(_, _)
TextLess(a, b) ==
    IF b = <<>> THEN FALSE
    ELSE IF a = <<>> THEN TRUE
    ELSE IF Head(a) # Head(b) THEN Rank(Head(a)) < Rank(Head(b))
    ELSE TextLess(Tail(a), Tail(b))

\* row j comes before row k under ORDER BY provider, id
RowBefore(tbl, j, k) ==
    \/ TextLess(tbl[j].provider, tbl[k].provider)
    \/ tbl[j].provider = tbl[k].provider /\ TextLess(j, k)

\* the ids in the order of ORDER BY id
RECURSIVE OrderById(_, _)
OrderById(tbl, ids) ==
    IF ids = {} THEN <<>>
    ELSE LET first == CHOOSE k \in ids : \A j \in ids \ {k} : TextLess(k, j)
         IN  <<first>> \o OrderById(tbl, ids \ {first})

\* the ids of the rows in the order the SELECT of List returns them
RECURSIVE OrderBy(_, _)
OrderBy(tbl, ids) ==
    IF ids = {} THEN <<>>
    ELSE LET first == CHOOSE k \in ids : \A j \in ids \ {k} : RowBefore(tbl, k, j)
         IN  <<first>> \o OrderBy(tbl, ids \ {first})

\* Store.List, lines 174-202: the decoded payloads with applyMirrorPath
List(tbl) ==
    LET ids == OrderBy(tbl, DOMAIN tbl)
    IN  [i \in 1..Len(ids) |->
            [tbl[ids[i]].payload EXCEPT
                !.path = applyMirrorPath(tbl[ids[i]].payload.id, tbl[ids[i]].file_name)]]

ReadAuths == [id : {IdA, IdB, IdSpaceA}, fileName : {EmptyString, IdB},
              provider : {<<"G">>, <<"h">>},
              meta : {[type |-> Absent, label |-> Absent, email |-> Absent,
                       project_id |-> Absent]},
              createdAt : {ZeroTime}, disabled : BOOLEAN]
GetIds == {EmptyString, IdA, IdB, IdSpaceA}
\* a failure of the query, of the scan or of the decoding
ReadFaults == {"none", "failed"}

ReadStart == [op |-> "none", n |-> 0, id |-> <<>>, failed |-> FALSE, err |-> "",
              found |-> FALSE, list |-> <<>>]

InitReads ==
    /\ files = (PathOutside :> Marshal("m1"))
    /\ rows = <<>>
    /\ mu = NoProc
    /\ pc = [p \in Procs |-> "idle"]
    /\ call = [p \in Procs |-> NoCall]
    /\ pre = [p \in Procs |-> NoPre]
    /\ ret = [p \in Procs |-> NoRet]
    /\ calls = 0
    /\ faults = 0
    /\ PathIdle
    /\ PgIdle
    /\ WatchIdle
    /\ LockIdle
    /\ table = <<>>
    /\ disk = <<>>
    /\ now = 1
    /\ last = RecStart
    /\ read = ReadStart
    /\ registry = <<>>
    /\ req = NoReq
    /\ key = NoKey

\* Store.Get, lines 206-234
RecGet(rawId, fault) ==
    /\ read.n < MaxReads
    /\ LET id == TrimSpace(rawId)
           got == GetRecord(table, rawId)
           result == IF id = <<>> THEN [err |-> "id required", found |-> FALSE, list |-> <<>>]
                     ELSE IF fault # "none"
                     THEN [err |-> "scan row", found |-> FALSE, list |-> <<>>]
                     ELSE [err |-> "", found |-> got.found,
                           list |-> IF got.found THEN <<got.auth>> ELSE <<>>]
       IN  read' = [op |-> "Get", n |-> read.n + 1, id |-> rawId,
                    failed |-> (id # <<>> /\ fault # "none"), err |-> result.err,
                    found |-> result.found, list |-> result.list]
    /\ UNCHANGED <<storeVars, pathVars, recVars, pgVars, watchVars, lockVars,
                   registry, req, key>>

\* Store.List, lines 170-203
RecList(fault) ==
    /\ read.n < MaxReads
    /\ read' = [op |-> "List", n |-> read.n + 1, id |-> <<>>, failed |-> (fault # "none"),
                err |-> IF fault # "none" THEN "list rows" ELSE "",
                found |-> FALSE, list |-> IF fault # "none" THEN <<>> ELSE List(table)]
    /\ UNCHANGED <<storeVars, pathVars, recVars, pgVars, watchVars, lockVars,
                   registry, req, key>>

NextReads ==
    \/ \E auth \in ReadAuths : RecSave(auth)
    \/ \E path \in {PathA, PathB} : ExtRemove(path)
    \/ \E id \in GetIds, fault \in ReadFaults : RecGet(id, fault)
    \/ \E fault \in ReadFaults : RecList(fault)

SpecReads == InitReads /\ [][NextReads]_vars

\* C25 (as claimed): a Get returns not-found (no record, no error) exactly
\* when the table has no row with the id it was called with; a failed read
\* is returned as an error; and the call changes neither rows nor files.
C25_GetNotFoundIffNoRow ==
    [][(read'.n # read.n /\ read'.op = "Get")
        => /\ table' = table
           /\ disk' = disk
           /\ read'.failed => read'.err # ""
           /\ ~read'.failed
                => ((read'.err = "" /\ ~read'.found) <=> ~HasRow(table, read'.id))]_vars

\* C25 (amended): Get returns an error for a blank id and for a failed read;
\* otherwise it returns not-found exactly when the table has no row whose id
\* is the argument with its surrounding white space removed, and else the
\* record of that row; the call changes neither rows nor files.
C25_GetNotFoundIffNoTrimmedRow ==
    [][(read'.n # read.n /\ read'.op = "Get")
        => /\ table' = table
           /\ disk' = disk
           /\ (read'.failed \/ TrimSpace(read'.id) = <<>>)
                => (read'.err # "" /\ ~read'.found)
           /\ (~read'.failed /\ TrimSpace(read'.id) # <<>>)
                => /\ read'.err = ""
                   /\ ~read'.found <=> ~HasRow(table, TrimSpace(read'.id))
                   /\ read'.found => read'.list[1].id = TrimSpace(read'.id)]_vars

\* Get was called with an id in white space: it found the row of the trimmed
\* id, and the table also holds a row under the untrimmed id
C25_Witness ==
    /\ read.op = "Get"
    /\ read.id = IdSpaceA
    /\ read.err = ""
    /\ read.found
    /\ read.list[1].id = IdA
    /\ HasRow(table, IdSpaceA)
    /\ HasRow(table, IdA)

\* the records of list are those of the rows of tbl, one each, in the order
\* of (provider, id), with the path made of the mirror root and the file name
ListsTable(list, tbl) ==
    /\ Len(list) = Cardinality(DOMAIN tbl)
    /\ \A k \in DOMAIN tbl : \E i \in 1..Len(list) : list[i].id = k
    /\ \A i \in 1..Len(list) :
        /\ HasRow(tbl, list[i].id)
        /\ list[i].path = Join(AuthDir, tbl[list[i].id].file_name)
        /\ list[i].metadata = tbl[list[i].id].payload.metadata
    /\ \A i, j \in 1..Len(list) :
            i < j => /\ ~TextLess(tbl[list[j].id].provider, tbl[list[i].id].provider)
                     /\ tbl[list[i].id].provider = tbl[list[j].id].provider
                            => TextLess(list[i].id, list[j].id)

\* C26: a List that returns no error returns one record per row of the
\* table, in the order of (provider, id), each with attributes.path at the
\* mirror root joined with the row's file name, whatever files exist, and
\* the call changes neither rows nor files.
C26_ListIsTheTable ==
    [][(read'.n # read.n /\ read'.op = "List")
        => /\ table' = table
           /\ disk' = disk
           /\ read'.err = "" => ListsTable(read'.list, table)]_vars

\* List has returned two records of which the first has the greater id and
\* the file of the second is gone
C26_Witness ==
    /\ read.op = "List"
    /\ read.err = ""
    /\ Len(read.list) = 2
    /\ DOMAIN table = {IdA, IdB}
    /\ read.list[1].id = IdB
    /\ read.list[2].id = IdA
    /\ table[IdA].file_name = IdB
    /\ ~Exists(disk, read.list[2].path)

(***************************************************************************)
(* PostgresTokenStore in service: Save and Delete step by step, each call  *)
(* by a process, and SyncFromDatabase called on the same store.            *)
(***************************************************************************)
\* PostgresTokenStore.resolveAuthPath for a record without attributes.path
\* and FileName: [err, val]
resolveAuthPath(auth) ==
    IF auth.id = <<>> THEN [err |-> "missing id", val |-> <<>>]
    ELSE IF IsAbs(auth.id) THEN [err |-> "", val |-> auth.id]
    ELSE [err |-> "", val |-> Join(PgAuthDir, FromSlash(auth.id))]

\* PostgresTokenStore.resolveDeletePath
resolveDeletePath(id) ==
    IF Contains(id, <<Separator>>) \/ IsAbs(id) THEN id
    ELSE Join(PgAuthDir, FromSlash(id))

\* jsonEqual on the contents of the model
jsonEqual(a, b) == a # PgPartial /\ b # PgPartial /\ a = b

\* auth.Metadata: nil, or a map (its JSON is the content)
NilMeta == "nil"
PgAuths ==
    [id : {IdA}, meta : {NilMeta} \cup PgContents, disabled : BOOLEAN]
        \cup {[id |-> EmptyString, meta |-> "c1", disabled |-> FALSE],
              [id |-> IdOutside, meta |-> "c2", disabled |-> FALSE]}
PgDeleteIds == {EmptyString, IdA, IdOutside}
\* the tables of the store in service
PgServiceTables == {tbl \in PgTables : DOMAIN tbl \subseteq {IdA}}

PgCallStart == [op |-> "none", pc |-> "idle", id |-> <<>>, meta |-> NilMeta, disabled |-> FALSE,
                path |-> <<>>, data |-> "", err |-> "", ret |-> <<>>, began |-> "idle",
                ended |-> "idle"]

\* the mirror directory of a table: one file per row
PgMirrorOf(tbl) ==
    [f \in {Join(PgAuthDir, id) : id \in DOMAIN tbl} |->
        tbl[CHOOSE id \in DOMAIN tbl : Join(PgAuthDir, id) = f]]

\* the store after Start: the directory mirrors the table
InitPg ==
    /\ files = (PathOutside :> Marshal("m1"))
    /\ rows = <<>>
    /\ mu = NoProc
    /\ pc = [p \in Procs |-> "idle"]
    /\ call = [p \in Procs |-> NoCall]
    /\ pre = [p \in Procs |-> NoPre]
    /\ ret = [p \in Procs |-> NoRet]
    /\ calls = 0
    /\ faults = 0
    /\ PathIdle
    /\ RecIdle
    /\ WatchIdle
    /\ ApiIdle
    /\ pgRows \in PgServiceTables
    /\ pgFiles = PgMirrorOf(pgRows) @@ (PathOutside :> "c1")
    /\ start = StartOff
    /\ sync = SyncStart
    /\ pgMu = NoProc
    /\ pgCall = [p \in Procs |-> PgCallStart]

\* the call of p returns, releasing the lock when p holds it
PgReturn(p, err, path) ==
    /\ pgCall' = [pgCall EXCEPT ![p].pc = "done", ![p].err = err, ![p].ret = path,
                                ![p].ended = sync.pc]
    /\ pgMu' = IF pgMu = p THEN NoProc ELSE pgMu

PgGoto(p, label) == pgCall' = [pgCall EXCEPT ![p].pc = label]

\* Save, lines 174-191: resolveAuthPath and the os.Stat of a disabled record
PgSaveCall(p, auth) ==
    /\ pgCall[p].pc = "idle"
    /\ LET path == resolveAuthPath(auth)
           called == [PgCallStart EXCEPT !.op = "Save", !.id = auth.id, !.meta = auth.meta,
                                         !.disabled = auth.disabled, !.path = path.val,
                                         !.began = sync.pc]
       IN  IF path.err # ""
           THEN pgCall' = [pgCall EXCEPT ![p] = [called EXCEPT !.pc = "done", !.err = path.err,
                                                              !.ended = sync.pc]]
           ELSE IF auth.disabled /\ ~Exists(pgFiles, path.val)
           THEN pgCall' = [pgCall EXCEPT ![p] = [called EXCEPT !.pc = "done",
                                                              !.ended = sync.pc]]
           ELSE pgCall' = [pgCall EXCEPT ![p] = [called EXCEPT !.pc = "lock"]]
    /\ UNCHANGED <<storeVars, pathVars, recVars, pgVars, watchVars, apiVars, pgMu>>

\* lines 193-198: s.mu.Lock(), os.MkdirAll
PgSaveLock(p) ==
    /\ pgCall[p].pc = "lock"
    /\ pgMu = NoProc
    /\ pgMu' = p
    /\ PgGoto(p, "read")
    /\ UNCHANGED <<storeVars, pathVars, recVars, pgVars, watchVars, apiVars>>

\* lines 200-216 and 224-226: nothing to persist; the existing file is read
\* and compared
PgSaveRead(p) ==
    /\ pgCall[p].pc = "read"
    /\ IF pgCall[p].meta = NilMeta
       THEN PgReturn(p, "nothing to persist", <<>>)
       ELSE IF Exists(pgFiles, pgCall[p].path) /\ jsonEqual(pgFiles[pgCall[p].path], pgCall[p].meta)
       THEN PgReturn(p, "", pgCall[p].path)
       ELSE PgGoto(p, "write_tmp") /\ pgMu' = pgMu
    /\ UNCHANGED <<storeVars, pathVars, recVars, pgVars, watchVars, apiVars>>

\* lines 217-220: os.WriteFile(tmp)
PgSaveWriteTmp(p) ==
    /\ pgCall[p].pc = "write_tmp"
    /\ pgFiles' = WriteFile(pgFiles, pgCall[p].path \o TmpSuffix, pgCall[p].meta)
    /\ PgGoto(p, "rename")
    /\ UNCHANGED <<storeVars, pathVars, recVars, watchVars, apiVars, pgRows, start, sync, pgMu>>

\* lines 221-223: os.Rename(tmp, path)
PgSaveRename(p) ==
    /\ pgCall[p].pc = "rename"
    /\ IF Exists(pgFiles, pgCall[p].path \o TmpSuffix)
       THEN /\ pgFiles' = Rename(pgFiles, pgCall[p].path \o TmpSuffix, pgCall[p].path)
            /\ PgGoto(p, "upsert_read")
            /\ pgMu' = pgMu
       ELSE /\ pgFiles' = pgFiles
            /\ PgReturn(p, "rename auth file", <<>>)
    /\ UNCHANGED <<storeVars, pathVars, recVars, watchVars, apiVars, pgRows, start, sync>>

\* lines 228-241 and 310-316: relativeAuthID, and the os.ReadFile of
\* upsertAuthRecord
PgSaveUpsertRead(p) ==
    /\ pgCall[p].pc = "upsert_read"
    /\ IF relativeAuthID(pgCall[p].path).err # ""
       THEN PgReturn(p, relativeAuthID(pgCall[p].path).err, <<>>)
       ELSE IF ~Exists(pgFiles, pgCall[p].path)
       THEN PgReturn(p, "read auth file", <<>>)
       ELSE /\ pgCall' = [pgCall EXCEPT ![p].pc = "upsert_exec",
                                        ![p].data = pgFiles[pgCall[p].path]]
            /\ pgMu' = pgMu
    /\ UNCHANGED <<storeVars, pathVars, recVars, pgVars, watchVars, apiVars>>

\* lines 317-327 and 242-244: the INSERT ... ON CONFLICT, return path
PgSaveUpsertExec(p) ==
    /\ pgCall[p].pc = "upsert_exec"
    /\ \/ /\ pgRows' = pgRows
          /\ PgReturn(p, "upsert auth record", <<>>)
       \/ /\ LET relID == relativeAuthID(pgCall[p].path).val
             IN  pgRows' = [k \in (DOMAIN pgRows) \cup {relID} |->
                              IF k = relID THEN pgCall[p].data ELSE pgRows[k]]
          /\ PgReturn(p, "", pgCall[p].path)
    /\ UNCHANGED <<storeVars, pathVars, recVars, watchVars, apiVars, pgFiles, start, sync>>

\* Delete, lines 283-294: the id and resolveDeletePath
PgDeleteCall(p, rawId) ==
    /\ pgCall[p].pc = "idle"
    /\ LET id == TrimSpace(rawId)
           called == [PgCallStart EXCEPT !.op = "Delete", !.id = rawId,
                                         !.path = resolveDeletePath(id), !.began = sync.pc]
       IN  IF id = <<>>
           THEN pgCall' = [pgCall EXCEPT ![p] = [called EXCEPT !.pc = "done", !.path = <<>>,
                                                              !.err = "id is empty",
                                                              !.ended = sync.pc]]
           ELSE pgCall' = [pgCall EXCEPT ![p] = [called EXCEPT !.pc = "remove"]]
    /\ UNCHANGED <<storeVars, pathVars, recVars, pgVars, watchVars, apiVars, pgMu>>

\* lines 295-297: os.Remove(path)
PgDeleteRemove(p) ==
    /\ pgCall[p].pc = "remove"
    /\ pgFiles' = RemoveFile(pgFiles, pgCall[p].path)
    /\ PgGoto(p, "record")
    /\ UNCHANGED <<storeVars, pathVars, recVars, watchVars, apiVars, pgRows, start, sync, pgMu>>

\* lines 298-302: relativeAuthID and deleteAuthRecord
PgDeleteRecord(p) ==
    /\ pgCall[p].pc = "record"
    /\ LET relID == relativeAuthID(pgCall[p].path)
       IN  IF relID.err # ""
           THEN /\ pgRows' = pgRows
                /\ PgReturn(p, relID.err, <<>>)
           ELSE /\ pgRows' = DeleteRow(pgRows, relID.val)
                /\ PgReturn(p, "", <<>>)
    /\ UNCHANGED <<storeVars, pathVars, recVars, watchVars, apiVars, pgFiles, start, sync>>

\* SyncFromDatabase called on the store in service, lines 129-138: the SELECT
PgSyncCall ==
    /\ sync.pc = "idle"
    /\ start = StartOff
    /\ \/ sync' = [sync EXCEPT !.pc = "failed"]
       \/ sync' = [pc |-> "reset", rows |-> pgRows, todo |-> DOMAIN pgRows]
    /\ UNCHANGED <<storeVars, pathVars, recVars, watchVars, lockVars, apiVars,
                   pgRows, pgFiles, start>>

NextPg ==
    \/ \E p \in Procs, auth \in PgAuths : PgSaveCall(p, auth)
    \/ \E p \in Procs : PgSaveLock(p)
    \/ \E p \in Procs : PgSaveRead(p)
    \/ \E p \in Procs : PgSaveWriteTmp(p)
    \/ \E p \in Procs : PgSaveRename(p)
    \/ \E p \in Procs : PgSaveUpsertRead(p)
    \/ \E p \in Procs : PgSaveUpsertExec(p)
    \/ \E p \in Procs, id \in PgDeleteIds : PgDeleteCall(p, id)
    \/ \E p \in Procs : PgDeleteRemove(p)
    \/ \E p \in Procs : PgDeleteRecord(p)
    \/ PgSyncCall
    \/ SyncReset
    \/ SyncWrite
    \/ SyncReturn

SpecPg == InitPg /\ [][NextPg]_vars

\* the call of p did not overlap SyncFromDatabase: the synchronisation had
\* returned when the call began, or had not begun when the call returned
Serial(p) == pgCall[p].began \in {"done", "failed"} \/ pgCall[p].ended = "idle"

PgReturned(p) == pgCall[p].pc = "done"
PgQuiet == \A p \in Procs : pgCall[p].pc \in {"idle", "done"}
NoPgDelete == \A p \in Procs : pgCall[p].op # "Delete"
PgFileOf(id) == Join(PgAuthDir, FromSlash(id))
PgMirrored(id) ==
    IF Exists(pgFiles, PgFileOf(id)) THEN pgFiles[PgFileOf(id)] = pgRows[id] ELSE FALSE

\* C28: SyncFromDatabase takes no store lock, and only its overlap with a
\* Save breaks the mirror: when the synchronisation has returned without
\* error and every Save ran entirely before or entirely after it (no Delete
\* and no failed upsert involved), each committed row has its file, with the row's content, in
\* the mirror directory.
C28_SerialSyncKeepsMirror ==
    /\ pgMu \in Procs \cup {NoProc}
    /\ (/\ sync.pc = "done"
         /\ PgQuiet
         /\ NoPgDelete
         /\ \A q \in Procs : pgCall[q].err # "upsert auth record"
         /\ \A p \in Procs : pgCall[p].op = "Save" => Serial(p))
            => \A id \in DOMAIN pgRows : PgMirrored(id)
    /\ NoPgDelete =>
            \A p \in Procs :
                (/\ pgCall[p].op = "Save"
                 /\ PgReturned(p)
                 /\ pgCall[p].err \in {"rename auth file", "read auth file"}) => ~Serial(p)

\* a Save that overlapped the synchronisation returned without error, the
\* synchronisation returned without error, and the committed row of the
\* Save has no file
C28_Witness ==
    /\ sync.pc = "done"
    /\ PgQuiet
    /\ NoPgDelete
    /\ \E p \in Procs :
        /\ pgCall[p].op = "Save"
        /\ PgReturned(p)
        /\ pgCall[p].err = ""
        /\ ~Serial(p)
        /\ IdA \in DOMAIN pgRows
        /\ ~Exists(pgFiles, PgFileOf(IdA))

\* p is between the lock and the return of Save
InPgSave(p) ==
    pgCall[p].op = "Save"
    /\ pgCall[p].pc \in {"read", "write_tmp", "rename", "upsert_read", "upsert_exec"}

\* p is between the file removal and the row deletion of Delete
InPgDelete(p) == pgCall[p].op = "Delete" /\ pgCall[p].pc \in {"remove", "record"}

SameRecord(p, q) == pgCall[p].path = pgCall[q].path

\* C29: Delete runs under the lock of Save: no Delete is between its file
\* removal and its row deletion while a Save of the same id is past the lock,
\* and after a Save and a Delete of the same id have both returned without
\* error the id has both a file and a row, or neither.
C29_DeleteExcludesSave ==
    \A p \in Procs : \A q \in Procs \ {p} :
        /\ ~(InPgSave(p) /\ InPgDelete(q) /\ SameRecord(p, q))
        /\ (/\ sync.pc = "idle"
            /\ pgCall[p].op = "Save" /\ PgReturned(p) /\ pgCall[p].err = ""
            /\ ~pgCall[p].disabled
            /\ pgCall[q].op = "Delete" /\ PgReturned(q) /\ pgCall[q].err = ""
            /\ TrimSpace(pgCall[q].id) = pgCall[p].id)
                => (Exists(pgFiles, PgFileOf(pgCall[p].id)) <=> pgCall[p].id \in DOMAIN pgRows)

\* the outcome alone: a file without a row, or a row without a file, after
\* both calls returned without error
PgTorn ==
    \E p \in Procs : \E q \in Procs \ {p} :
        /\ sync.pc = "idle"
        /\ pgCall[p].op = "Save" /\ PgReturned(p) /\ pgCall[p].err = ""
        /\ ~pgCall[p].disabled
        /\ pgCall[q].op = "Delete" /\ PgReturned(q) /\ pgCall[q].err = ""
        /\ TrimSpace(pgCall[q].id) = pgCall[p].id
        /\ ~(Exists(pgFiles, PgFileOf(pgCall[p].id)) <=> pgCall[p].id \in DOMAIN pgRows)

PgWriting == {"write_tmp", "rename", "upsert_read", "upsert_exec"}

\* C30: Save with Disabled=true is a deletion request: the call never reaches
\* the file write, the rename or the upsert, and when it returns without
\* error neither the file nor the row of the record exists.
C30_DisabledSaveDeletes ==
    [][\A p \in Procs :
        (pgCall'[p].op = "Save" /\ pgCall'[p].disabled) =>
            /\ pgCall'[p].pc \notin PgWriting
            /\ (pgCall[p].pc # "done" /\ pgCall'[p].pc = "done" /\ pgCall'[p].err = "") =>
                    /\ ~Exists(pgFiles', pgCall'[p].path)
                    /\ relativeAuthID(pgCall'[p].path).val \notin DOMAIN pgRows']_vars

\* the files that are not under the auth directory
PgOutside(fs) == {f \in DOMAIN fs : ~UnderRoot(f, PgAuthDir)}

\* C31: Save never creates or overwrites a file outside the auth directory:
\* no step of a Save changes the files outside it, and a Save whose path
\* resolves outside never reaches the lock (it returns an error before any
\* directory creation or file write).
C31_SaveStaysInAuthDir ==
    [][\A p \in Procs :
        (pgCall'[p].op = "Save" /\ pgCall'[p] # pgCall[p]) =>
            /\ PgOutside(pgFiles') = PgOutside(pgFiles)
            /\ \A f \in PgOutside(pgFiles) : pgFiles'[f] = pgFiles[f]
            /\ (relativeAuthID(pgCall'[p].path).err # "" /\ pgCall'[p].path # <<>>) =>
                    pgCall'[p].pc = "done" /\ pgCall'[p].err # ""]_vars

\* C32: after a Save of a non-disabled record with metadata returns its path
\* without error, the table has a row for the relative id of the record with
\* the content of the file at that path, also when the file already held the
\* same JSON.  Stated for paths under the auth directory, on stores on which
\* no Delete and no SyncFromDatabase was called.
C32_SavedRowEqualsFile ==
    [][\A p \in Procs :
        (/\ NoPgDelete'
         /\ sync'.pc = "idle"
         /\ pgCall'[p].op = "Save"
         /\ ~pgCall'[p].disabled
         /\ pgCall'[p].meta # NilMeta
         /\ relativeAuthID(pgCall'[p].path).err = ""
         /\ pgCall[p].pc # "done"
         /\ pgCall'[p].pc = "done"
         /\ pgCall'[p].err = "")
            => LET relID == relativeAuthID(pgCall'[p].path).val
               IN  /\ Exists(pgFiles', pgCall'[p].path)
                   /\ IF relID \in DOMAIN pgRows'
                      THEN pgRows'[relID] = pgFiles'[pgCall'[p].path]
                      ELSE FALSE]_vars

\* C33: when PersistAuthFiles returns an error, the call has inserted,
\* updated and deleted no row: the table is the one the call found when it
\* took the lock.
C33_FailedBatchChangesNoRow ==
    \A p \in Procs :
        (/\ pc[p] = "done"
         /\ call[p].op = "PersistAuthFiles"
         /\ ret[p].err # "")
            => rows = pre[p].rows

\* C34: a temp file left by a write is never taken for a credential: no row
\* (and so no record List returns) has an id ending in .tmp.  No id passed to
\* Save ends in .tmp.
C34_NoTempFileRow ==
    \A id \in DOMAIN rows : ~HasSuffix(id, TmpSuffix)

\* this step is a PersistAuthFiles call on the file the preceding call, a
\* Save of the same id, wrote
IngestsOwnWrite ==
    /\ last'.n = last.n + 1
    /\ last'.op = "Ingest"
    /\ last.op = "Save"
    /\ last.path = last'.path
    /\ last.id = last'.id

\* C35: ingesting a file that Save itself wrote, unmodified, leaves the
\* record Get returns with the provider, label, status, attributes and
\* created_at that Save stored.
C35_IngestOfOwnWriteKeepsRecord ==
    [][IngestsOwnWrite
        => LET old == GetRecord(table, last.id).auth
               new == GetRecord(table', last'.id).auth
           IN  /\ new.provider = old.provider
               /\ new.label = old.label
               /\ new.status = old.status
               /\ new.path = old.path
               /\ new.created_at = old.created_at]_vars

\* C36: the updated_at of a row never decreases over Save and
\* PersistAuthFiles calls; the clock of the model is monotonic and a file's
\* modification time is the time it was written.
C36_UpdatedAtNeverDecreases ==
    [][\A id \in (DOMAIN table) \cap (DOMAIN table') :
        table'[id].updated_at >= table[id].updated_at]_vars

(***************************************************************************)
(* Progress of the store: every step of a call returns (with or without an *)
(* error) and the process does not die.                                    *)
(***************************************************************************)
LiveAuths == {auth \in SaveAuths : auth.id \in {IdB, IdParent} /\ auth.fileName = EmptyString
                                    /\ auth.meta = "m1"}
LiveDeleteIds == {IdB}
LiveBatches == {<<PathB>>, <<PathB, PathOutside>>}

\* s.mu.Lock() of p
LockStep(p) == SaveLock(p) \/ DeleteLock(p) \/ PersistLock(p)

\* the steps of p between the lock and the return, and the return, but for
\* DeleteRemove and PersistRead
BodyStep(p) ==
    \/ SaveRemove(p)
    \/ SaveDeleteRecord(p)
    \/ SaveMkdir(p)
    \/ SaveWriteTmp(p)
    \/ SaveRename(p)
    \/ SavePersist(p)
    \/ DeleteRecord(p)
    \/ PersistUpsert(p)
    \/ PersistDelete(p)
    \/ Finish(p)

\* p is at DeleteRemove, or at PersistRead of the i-th path: the step is
\* enabled there, and taking it leaves the place
AtPathStep(p, i) ==
    \/ pc[p] = "delete_remove"
    \/ pc[p] = "persist_read" /\ call[p].i = i

NextLive ==
    \/ \E p \in Procs, auth \in LiveAuths : SaveCall(p, auth)
    \/ \E p \in Procs : SaveLock(p)
    \/ \E p \in Procs : SaveRemove(p)
    \/ \E p \in Procs : SaveDeleteRecord(p)
    \/ \E p \in Procs : SaveMkdir(p)
    \/ \E p \in Procs : SaveWriteTmp(p)
    \/ \E p \in Procs : SaveRename(p)
    \/ \E p \in Procs : SavePersist(p)
    \/ \E p \in Procs, id \in LiveDeleteIds : DeleteCall(p, id)
    \/ \E p \in Procs : DeleteLock(p)
    \/ \E p \in Procs : DeleteRemove(p)
    \/ \E p \in Procs : DeleteRecord(p)
    \/ \E p \in Procs, paths \in LiveBatches : PersistCall(p, paths)
    \/ \E p \in Procs : PersistLock(p)
    \/ \E p \in Procs : PersistRead(p)
    \/ \E p \in Procs : PersistUpsert(p)
    \/ \E p \in Procs : PersistDelete(p)
    \/ \E p \in Procs : Finish(p)

\* a goroutine that can run does run; sync.Mutex hands the lock to a waiter
\* that keeps failing to acquire it (starvation mode).  For DeleteRemove and
\* PersistRead weak fairness is written out: the step is always enabled at
\* its place, so the process is not there forever.
SpecLive ==
    /\ Init
    /\ [][NextLive]_vars
    /\ \A p \in Procs : WF_vars(BodyStep(p))
    /\ \A p \in Procs : SF_vars(LockStep(p))
    /\ \A p \in Procs : \A i \in 0..MaxBatch : []<>~AtPathStep(p, i)

\* C37: the store never deadlocks on its mutex: a call takes the lock only
\* when it does not hold it, a process that has returned does not hold it,
\* and every call waiting for the lock eventually holds it and eventually
\* has returned.
C37_NoDeadlock ==
    /\ [](\A p \in Procs : AtLock(p) => mu # p)
    /\ [](\A p \in Procs : pc[p] = "idle" => mu # p)
    /\ \A p \in Procs : AtLock(p) ~> (mu = p)
    /\ \A p \in Procs : AtLock(p) ~> (pc[p] = "idle")

\* a call waits for the lock another call holds
C37_Witness ==
    \E p, q \in Procs : AtLock(p) /\ InCritical(q) /\ mu = q
(***************************************************************************)
(* POST /api/credentials answered 201.                                     *)
(***************************************************************************)
\* the record createCredential registers for the body of request r
RequestedAuth(r) ==
    LET provider == TrimSpace(r.body.provider)
        type == IF r.body.type.kind = "absent" THEN Str(provider) ELSE r.body.type
    IN  [id |-> r.id, fileName |-> r.id, provider |-> provider,
         meta |-> [type |-> type, label |-> Absent, email |-> Absent,
                   project_id |-> Absent],
         createdAt |-> now, disabled |-> r.body.disabled]

\* the step answers a POST with 201 and registration has run Store.Save
\* without an error
CreatedThroughSave ==
    /\ req'.n = req.n + 1
    /\ req'.kind = "credentials"
    /\ req'.method = "POST"
    /\ req'.status = 201
    /\ \E saved \in {StoreSave(table, disk, RequestedAuth(req'), now)} :
           /\ saved.err = ""
           /\ table' = saved.table
           /\ disk' = saved.disk

\* C38: after a 201 response to POST /credentials whose registration called
\* the store's Save, GET /credentials/{id} for the returned id finds the
\* record and its mirror file exists, whatever the accepted body (also with
\* disabled = true).
C38_CreatedIsPersisted ==
    [][CreatedThroughSave =>
           \E got \in {GetRecord(table', req'.id)} :
               /\ got.found
               /\ got.auth.path \in DOMAIN disk']_vars

====
